---------------------------- MODULE Spec2Model ----------------------------
(***************************************************************************)
(* A model of arcaea.js: the chart codec (Chart.fromRaw / Chart.export),   *)
(* the per-group timing conversion engine (TimingGroup), and the game: the *)
(* note managers, their judge timings, the score and the judging.          *)
(*                                                                         *)
(* JavaScript numbers are modelled as extended rationals, so that every    *)
(* arithmetic expression of the source is translated operator by operator  *)
(* (division by zero, NaN and the infinities included); the rounding of    *)
(* IEEE doubles is not modelled.                                           *)
(***************************************************************************)
EXTENDS Integers, Sequences, FiniteSets, TLC

(***************************************************************************)
(* Bounds of the model.                                                    *)
(***************************************************************************)
\* the largest number of timing events of a group
MaxTimings == 3
\* the largest number of lines after the two header lines of a chart text
\* whose lines are drawn freely
MaxLines == 3

(***************************************************************************)
(* JavaScript numbers.  <<n, d>> with d > 0 is the rational n/d in lowest  *)
(* terms; <<1, 0>> is Infinity, <<-1, 0>> is -Infinity, <<0, 0>> is NaN.   *)
(***************************************************************************)
Abs(x) == IF x < 0 THEN -x ELSE x
Sgn(x) == IF x < 0 THEN -1 ELSE IF x > 0 THEN 1 ELSE 0
Min(S) == CHOOSE x \in S : \A y \in S : x <= y
Max(S) == CHOOSE x \in S : \A y \in S : x >= y

RECURSIVE Gcd(_, _)
Gcd(a, b) == IF b = 0 THEN a ELSE Gcd(b, a % b)

\* n/d with the sign in the numerator (not reduced: Canon reduces)
Norm(n, d) ==
    IF d = 0 THEN <<Sgn(n), 0>>
    ELSE IF n = 0 THEN <<0, 1>>
    ELSE IF d < 0 THEN <<-n, -d>>
    ELSE <<n, d>>

\* the one representation of a number, in lowest terms
Canon(x) ==
    IF x[2] = 0 \/ x[2] = 1 THEN x
    ELSE LET g == Gcd(Abs(x[1]), x[2]) IN <<x[1] \div g, x[2] \div g>>

I(n) == <<n, 1>>
NaN == <<0, 0>>
Zero == <<0, 1>>
One == <<1, 1>>
IsNaN(x) == x[1] = 0 /\ x[2] = 0
IsZero(x) == x[1] = 0 /\ x[2] # 0
IsFinite(x) == x[2] # 0
IsInteger(x) == x[2] # 0 /\ x[1] % x[2] = 0

Neg(x) == <<-x[1], x[2]>>
Add(x, y) ==
    IF IsNaN(x) \/ IsNaN(y) THEN NaN
    ELSE IF x[2] = 0 /\ y[2] = 0 THEN (IF x = y THEN x ELSE NaN)
    ELSE IF x[2] = 0 THEN x
    ELSE IF y[2] = 0 THEN y
    ELSE IF x[2] = y[2] THEN Norm(x[1] + y[1], x[2])
    ELSE Norm(x[1] * y[2] + y[1] * x[2], x[2] * y[2])
Sub(x, y) == Add(x, Neg(y))
Mul(x, y) == Norm(x[1] * y[1], x[2] * y[2])
Inv(y) ==
    IF IsNaN(y) THEN NaN
    ELSE IF y[2] = 0 THEN Zero
    ELSE IF y[1] = 0 THEN <<1, 0>>
    ELSE Norm(y[2], y[1])
Div(x, y) == Mul(x, Inv(y))

\* the comparisons of JavaScript: every comparison with NaN is false
Lt(x, y) ==
    /\ ~IsNaN(x)
    /\ ~IsNaN(y)
    /\ IF x[2] = 0 /\ y[2] = 0 THEN x[1] < y[1] ELSE x[1] * y[2] < y[1] * x[2]
Gt(x, y) == Lt(y, x)
Eq(x, y) ==
    /\ ~IsNaN(x)
    /\ ~IsNaN(y)
    /\ IF x[2] = 0 \/ y[2] = 0 THEN x = y ELSE x[1] * y[2] = y[1] * x[2]
Le(x, y) == Lt(x, y) \/ Eq(x, y)
Ge(x, y) == Le(y, x)

\* Math.floor
Floor(x) == IF x[2] = 0 THEN x ELSE <<x[1] \div x[2], 1>>

\* x || 1 : x when x is truthy (neither 0 nor NaN), else 1
OrOne(x) == IF x[1] = 0 THEN One ELSE x

(***************************************************************************)
(* A call either returns a value or throws.                                *)
(***************************************************************************)
\* a number is returned in lowest terms
Ok(v) == [thrown |-> "none", value |-> Canon(v)]
Returns(v) == [thrown |-> "none", value |-> v]
Throw(e) == [thrown |-> e, value |-> NaN]

(***************************************************************************)
(* Strings.  A string is the sequence of its characters; positions count   *)
(* from 1 where the source counts from 0, and a search that fails returns  *)
(* 0 where the source has -1.                                              *)
(***************************************************************************)
\* F(e), with e evaluated once, before F is
Bind(e, F(_)) == CHOOSE r \in {F(x) : x \in {e}} : TRUE

Whitespace == {" ", "\t", "\n", "\r"}
Digits == <<"0", "1", "2", "3", "4", "5", "6", "7", "8", "9">>
IsDigit(c) == \E d \in 1..10 : Digits[d] = c
DigitVal(c) == (CHOOSE d \in 1..10 : Digits[d] = c) - 1

\* the least element of a set of positions, 0 for the empty set
First(S) == IF S = {} THEN 0 ELSE CHOOSE x \in S : \A y \in S : x <= y

startsWith(s, p) == Len(s) >= Len(p) /\ SubSeq(s, 1, Len(p)) = p

indexOfFrom(s, p, from) ==
    First({i \in from..(Len(s) - Len(p) + 1) : SubSeq(s, i, i + Len(p) - 1) = p})

indexOf(s, p) == indexOfFrom(s, p, 1)

\* a position of the source clamped to the string
Clamp(s, a) == IF a < 0 THEN 0 ELSE IF a > Len(s) THEN Len(s) ELSE a

\* s.substring(a, b) with the source's positions: both ends are clamped to
\* the string and swapped when a > b
substring(s, a, b) ==
    IF Clamp(s, a) <= Clamp(s, b) THEN SubSeq(s, Clamp(s, a) + 1, Clamp(s, b))
    ELSE SubSeq(s, Clamp(s, b) + 1, Clamp(s, a))

trimStart(s) ==
    Bind(First({i \in 1..Len(s) : s[i] \notin Whitespace}), LAMBDA first :
        IF first = 0 THEN <<>> ELSE SubSeq(s, first, Len(s)))

trimEnd(s) ==
    SubSeq(s, 1, Len(s) - First({k \in 1..Len(s) : s[Len(s) + 1 - k] \notin Whitespace}) + 1)

trim(s) == Bind(trimStart(s), LAMBDA t : IF t = <<>> THEN t ELSE trimEnd(t))

\* s.split(c) for a separator of one character
RECURSIVE split(_, _)
split(s, c) ==
    Bind(indexOf(s, <<c>>), LAMBDA i :
        IF i = 0 THEN <<s>>
        ELSE <<SubSeq(s, 1, i - 1)>>
                 \o Bind(SubSeq(s, i + 1, Len(s)), LAMBDA rest : split(rest, c)))

(***************************************************************************)
(* Numbers and text.                                                       *)
(***************************************************************************)
RECURSIVE Pow10(_)
Pow10(k) == IF k = 0 THEN 1 ELSE 10 * Pow10(k - 1)

\* 10^k as a number, k of either sign
Pow10N(k) == IF k >= 0 THEN <<Pow10(k), 1>> ELSE <<1, Pow10(-k)>>

\* the position after the run of digits that starts at position i
DigitsEnd(s, i) ==
    Bind(First({j \in i..Len(s) : ~IsDigit(s[j])}), LAMBDA stop :
        IF stop = 0 THEN Len(s) + 1 ELSE stop)

\* the value of the digits of s from position from up to position to
RECURSIVE DigitsValue(_, _, _)
DigitsValue(s, from, to) ==
    IF to < from THEN 0
    ELSE 10 * DigitsValue(s, from, to - 1) + DigitVal(s[to])

\* the number of characters of the sign that s starts with
SignLength(s) == IF s # <<>> /\ s[1] \in {"+", "-"} THEN 1 ELSE 0

\* x with the sign that s starts with
Signed(s, x) == IF s # <<>> /\ s[1] = "-" THEN Canon(Neg(x)) ELSE Canon(x)

\* parseInt(str), radix 10: leading white space, a sign, then the longest
\* run of digits; NaN when there is no digit (the prefix 0x is not modelled)
parseInt(str) ==
    Bind(trimStart(str), LAMBDA s :
    Bind(DigitsEnd(s, 1 + SignLength(s)), LAMBDA to :
        IF to = 1 + SignLength(s) THEN NaN
        ELSE Signed(s, I(DigitsValue(s, 1 + SignLength(s), to - 1)))))

\* the decimal literal digits [. digits] of s at position from, with a digit
\* before or after the point: the position after it and its value
Mantissa(s, from) ==
    Bind(DigitsEnd(s, from), LAMBDA intEnd :
    Bind(IF intEnd <= Len(s) /\ s[intEnd] = "." THEN DigitsEnd(s, intEnd + 1) ELSE intEnd,
         LAMBDA fracEnd :
        IF fracEnd > intEnd + 1
        THEN [found |-> TRUE, end |-> fracEnd,
              value |-> Norm(DigitsValue(s, from, intEnd - 1) * Pow10(fracEnd - intEnd - 1)
                                 + DigitsValue(s, intEnd + 1, fracEnd - 1),
                             Pow10(fracEnd - intEnd - 1))]
        ELSE [found |-> intEnd > from,
              end |-> IF intEnd > from THEN fracEnd ELSE intEnd,
              value |-> I(DigitsValue(s, from, intEnd - 1))]))

\* the exponent e [sign] digits of s at position at, 0 when there is none
ExponentPart(s, at) ==
    IF at > Len(s) \/ s[at] \notin {"e", "E"} THEN 0
    ELSE Bind(SubSeq(s, at + 1, Len(s)), LAMBDA t :
         Bind(DigitsEnd(t, 1 + SignLength(t)), LAMBDA to :
            IF to = 1 + SignLength(t) THEN 0
            ELSE IF t[1] = "-" THEN -DigitsValue(t, 2, to - 1)
            ELSE DigitsValue(t, 1 + SignLength(t), to - 1)))

\* parseFloat(str): leading white space, a sign, then the longest prefix
\* that is a decimal literal with or without an exponent, or Infinity; NaN
\* when there is none
parseFloat(str) ==
    Bind(trimStart(str), LAMBDA s :
        IF startsWith(SubSeq(s, 1 + SignLength(s), Len(s)), <<"I", "n", "f", "i", "n", "i", "t", "y">>)
        THEN Signed(s, <<1, 0>>)
        ELSE Bind(Mantissa(s, 1 + SignLength(s)), LAMBDA m :
                IF ~m.found THEN NaN
                ELSE Signed(s, Mul(m.value, Pow10N(ExponentPart(s, m.end))))))

\* the decimal digits of a natural number
RECURSIVE NatToString(_)
NatToString(n) ==
    IF n < 10 THEN <<Digits[n + 1]>>
    ELSE NatToString(n \div 10) \o <<Digits[(n % 10) + 1]>>

Repeat(c, k) == [i \in 1..k |-> c]

\* the digits of n, padded on the left with 0 to k digits
PadDigits(n, k) == Bind(NatToString(n), LAMBDA m : Repeat("0", k - Len(m)) \o m)

\* the number of decimals of a finite number (at most 6 here: below 1e-6
\* the source's conversion changes to the exponent notation)
Decimals(x) == CHOOSE k \in 0..6 : Pow10(k) % x[2] = 0 /\
                                   \A j \in 0..(k - 1) : Pow10(j) % x[2] # 0

\* the decimal digits of the positive integer n with a point before the
\* last k of them
FixedPoint(n, k) ==
    IF k = 0 THEN NatToString(n)
    ELSE NatToString(n \div Pow10(k)) \o <<".">> \o PadDigits(n % Pow10(k), k)

\* Number to String, as in `${x}` and in "..." + x
NumberToString(num) ==
    Bind(Canon(num), LAMBDA x :
        IF IsNaN(x) THEN <<"N", "a", "N">>
        ELSE IF x[2] = 0 THEN (IF x[1] > 0 THEN <<"I", "n", "f", "i", "n", "i", "t", "y">> ELSE <<"-", "I", "n", "f", "i", "n", "i", "t", "y">>)
        ELSE Bind(Decimals(x), LAMBDA k :
                (IF x[1] < 0 THEN <<"-">> ELSE <<>>)
                    \o FixedPoint(Abs(x[1]) * (Pow10(k) \div x[2]), k)))

\* the e with 10^e <= n/d < 10^(e+1), for n/d > 0
RECURSIVE ExponentUp(_, _, _)
ExponentUp(n, d, e) == IF Pow10(e + 1) * d <= n THEN ExponentUp(n, d, e + 1) ELSE e

RECURSIVE ExponentDown(_, _, _)
ExponentDown(n, d, e) == IF d <= n * Pow10(-e) THEN e ELSE ExponentDown(n, d, e - 1)

Exponent10(x) == IF x[1] >= x[2] THEN ExponentUp(x[1], x[2], 0) ELSE ExponentDown(x[1], x[2], -1)

\* the p digits m of a number of exponent e, in the fixed notation when
\* -6 <= e < p and in the exponent notation otherwise
Notation(m, e, p) ==
    IF e < -6 \/ e >= p
    THEN <<m[1]>> \o (IF p = 1 THEN <<>> ELSE <<".">> \o SubSeq(m, 2, p))
             \o <<"e", IF e < 0 THEN "-" ELSE "+">> \o NatToString(Abs(e))
    ELSE IF e = p - 1 THEN m
    ELSE IF e >= 0 THEN SubSeq(m, 1, e + 1) \o <<".">> \o SubSeq(m, e + 2, p)
    ELSE <<"0", ".">> \o Repeat("0", -(e + 1)) \o m

\* the p significant digits of a > 0 and its exponent: a tie is rounded up,
\* and a round up to 10^p moves the exponent
Significant(a, p) ==
    Bind(Exponent10(a), LAMBDA e :
    Bind(Floor(Add(Mul(a, Pow10N(p - 1 - e)), <<1, 2>>))[1], LAMBDA n :
        IF n = Pow10(p) THEN Notation(NatToString(Pow10(p - 1)), e + 1, p)
        ELSE Notation(NatToString(n), e, p)))

\* Number.prototype.toPrecision(p)
toPrecision(num, p) ==
    Bind(Canon(num), LAMBDA x :
        IF x[2] = 0 THEN Returns(NumberToString(x))
        ELSE IF p < 1 \/ p > 100 THEN Throw("RangeError")
        ELSE IF x[1] = 0
        THEN Returns(<<"0">> \o (IF p = 1 THEN <<>> ELSE <<".">> \o Repeat("0", p - 1)))
        ELSE Returns((IF x[1] < 0 THEN <<"-">> ELSE <<>>)
                         \o Significant(<<Abs(x[1]), x[2]>>, p)))

\* 10^(-0.00001), the slack of Math.log10(x) + 0.00001, to five decimals
LogSlack == <<99998, 100000>>

\* Math.ceil(Math.log10(a) + 0.00001) for a > 0: the least k with
\* a <= 10^(k - 0.00001); -2 stands for every value below -1
RECURSIVE CeilLogUp(_, _)
CeilLogUp(a, k) == IF Le(a, Mul(Pow10N(k), LogSlack)) THEN k ELSE CeilLogUp(a, k + 1)

CeilLog10(a) ==
    IF ~Le(a, LogSlack) THEN CeilLogUp(a, 1)
    ELSE IF ~Le(Mul(a, I(10)), LogSlack) THEN 0
    ELSE IF ~Le(Mul(a, I(100)), LogSlack) THEN -1
    ELSE -2

\* numTo2f with one digit less
numTo1f(num) ==
    IF ~IsFinite(num) THEN Returns(NumberToString(num))
    ELSE Bind(<<Abs(num[1]), num[2]>>, LAMBDA a :
         Bind(IF Eq(a, One) \/ Eq(a, Zero) THEN 1 ELSE CeilLog10(a), LAMBDA d :
            toPrecision(num, 1 + d)))

\* Utils.numTo2f
numTo2f(num) ==
    IF ~IsFinite(num) THEN Returns(NumberToString(num))
    ELSE Bind(<<Abs(num[1]), num[2]>>, LAMBDA a :
         Bind(IF Eq(a, One) \/ Eq(a, Zero) THEN 1 ELSE CeilLog10(a), LAMBDA d :
            toPrecision(num, 2 + d)))

(***************************************************************************)
(* The regular expressions of the parser.  A match is the record of its   *)
(* capture groups.  The groups (.*?) are lazy: each ends at the first      *)
(* occurrence of what follows it, and the match starts at the leftmost     *)
(* position from which all of them can be found.  The lines of the model   *)
(* hold no line terminator, which "." would not match.                     *)
(***************************************************************************)
NoMatch == [matched |-> FALSE, groups |-> <<>>, end |-> 0]

\* k groups (.*?) from position from on: each ends at the next ",", the
\* last one at the next occurrence of the character last
\* (groups holds the groups matched before from)
RECURSIVE LazyGroups(_, _, _, _, _)
LazyGroups(s, from, k, last, groups) ==
    Bind(indexOfFrom(s, IF k = 1 THEN <<last>> ELSE <<",">>, from), LAMBDA stop :
        IF stop = 0 THEN NoMatch
        ELSE Bind(Append(groups, SubSeq(s, from, stop - 1)), LAMBDA found :
                IF k = 1 THEN [matched |-> TRUE, groups |-> found, end |-> stop]
                ELSE LazyGroups(s, stop + 1, k - 1, last, found)))

\* line.match(/prefix(.*?),...,(.*?)\)/) with k groups
MatchFields(s, prefix, k) ==
    Bind(indexOf(s, prefix), LAMBDA at :
        IF at = 0 THEN NoMatch ELSE LazyGroups(s, at + Len(prefix), k, ")", <<>>))

\* line.match(/AudioOffset:(-?\d*)/)
MatchAudioOffset(s) ==
    Bind(indexOf(s, <<"A", "u", "d", "i", "o", "O", "f", "f", "s", "e", "t", ":">>), LAMBDA at :
        IF at = 0 THEN NoMatch
        ELSE Bind(at + Len(<<"A", "u", "d", "i", "o", "O", "f", "f", "s", "e", "t", ":">>), LAMBDA from :
             Bind(DigitsEnd(s, IF from <= Len(s) /\ s[from] = "-" THEN from + 1 ELSE from),
                  LAMBDA to :
                [matched |-> TRUE, groups |-> <<SubSeq(s, from, to - 1)>>, end |-> to - 1])))

\* (\d+?), at position from: a run of one digit or more up to a ",", whose
\* position is returned (0 when there is no match)
DigitsField(s, from) ==
    Bind(DigitsEnd(s, from), LAMBDA to :
        IF to > from /\ to <= Len(s) /\ s[to] = "," THEN to ELSE 0)

\* \)(?:\[(.*?)\])?; at position p: the position of the "]" when the
\* bracket is matched, p itself when it is not, 0 when there is no match
ArcTail(s, p) ==
    IF p >= Len(s) \/ s[p] # ")" THEN 0
    ELSE IF s[p + 1] = ";" THEN p
    ELSE IF s[p + 1] = "["
    THEN First({q \in (p + 2)..(Len(s) - 1) : s[q] = "]" /\ s[q + 1] = ";"})
    ELSE 0

\* the regular expression of Arc.fromRaw, tried at position at: groups 1
\* and 2 are digits, groups 3 to 9 end at the next ",", group 10 at the
\* first ")" that the tail follows, group 11 is the inside of the bracket
MatchArcAt(s, at) ==
    Bind(DigitsField(s, at + Len(<<"a", "r", "c", "(">>)), LAMBDA comma1 :
    IF comma1 = 0 THEN NoMatch
    ELSE Bind(DigitsField(s, comma1 + 1), LAMBDA comma2 :
    IF comma2 = 0 THEN NoMatch
    ELSE Bind(LazyGroups(s, comma2 + 1, 7, ",", <<>>), LAMBDA fields :
    IF ~fields.matched THEN NoMatch
    ELSE Bind({p \in (fields.end + 1)..Len(s) : ArcTail(s, p) # 0}, LAMBDA parens :
    IF parens = {} THEN NoMatch
    ELSE Bind(First(parens), LAMBDA paren :
         Bind(ArcTail(s, paren), LAMBDA tail :
             [matched |-> TRUE,
              groups |-> <<SubSeq(s, at + Len(<<"a", "r", "c", "(">>), comma1 - 1),
                           SubSeq(s, comma1 + 1, comma2 - 1)>>
                            \o fields.groups
                            \o <<SubSeq(s, fields.end + 1, paren - 1),
                                 IF tail = paren THEN <<>> ELSE SubSeq(s, paren + 2, tail - 1)>>,
              end |-> IF tail = paren THEN paren + 1 ELSE tail + 1]))))))

MatchArc(s) ==
    Bind({at \in 1..Len(s) :
             startsWith(SubSeq(s, at, Len(s)), <<"a", "r", "c", "(">>) /\ MatchArcAt(s, at).matched},
         LAMBDA starts : IF starts = {} THEN NoMatch ELSE MatchArcAt(s, First(starts)))

(***************************************************************************)
(* The events.  An event is the record of the fields that the parser sets  *)
(* and the exporter reads; class names the variant.                        *)
(***************************************************************************)
Null == [class |-> "null"]

TapNote(time, lane) == [class |-> "TapNote", time |-> time, lane |-> lane]

TapNoteFromRaw(line) ==
    Bind(MatchFields(line, <<"(">>, 2), LAMBDA result :
        IF ~result.matched THEN Throw("TypeError")
        ELSE Returns(TapNote(parseInt(result.groups[1]), parseInt(result.groups[2]))))

TapNoteExport(e, offset) ==
    Returns(<<"(">> \o NumberToString(Add(e.time, offset)) \o <<",">>
                \o NumberToString(e.lane) \o <<")", ";">>)

HoldNote(time, endTime, lane) ==
    [class |-> "HoldNote", time |-> time, endTime |-> endTime, lane |-> lane]

HoldNoteFromRaw(line) ==
    Bind(MatchFields(line, <<"h", "o", "l", "d", "(">>, 3), LAMBDA result :
        IF ~result.matched THEN Throw("TypeError")
        ELSE Returns(HoldNote(parseInt(result.groups[1]), parseInt(result.groups[2]),
                              parseInt(result.groups[3]))))

\* a HoldNote.export that leaves endTime as it is stored
HoldNoteExportEndUnshifted(e, offset) ==
    Returns(<<"h", "o", "l", "d", "(">> \o NumberToString(Add(e.time, offset)) \o <<",">>
                \o NumberToString(e.endTime) \o <<",">>
                \o NumberToString(e.lane) \o <<")", ";">>)

HoldNoteExport(e, offset) ==
    Returns(<<"h", "o", "l", "d", "(">> \o NumberToString(Add(e.time, offset)) \o <<",">>
                \o NumberToString(Add(e.endTime, offset)) \o <<",">>
                \o NumberToString(e.lane) \o <<")", ";">>)

\* ArctapNote.export
ArctapNoteExport(time, offset) ==
    <<"a", "r", "c", "t", "a", "p", "(">> \o NumberToString(Add(time, offset)) \o <<")", ";">>

\* arcTaps holds the times of the arc's ArctapNotes
Arc(time, endTime, xStart, xEnd, lineType, yStart, yEnd, color, isVoid, arcTaps) ==
    [class |-> "Arc", time |-> time, endTime |-> endTime,
     start |-> [x |-> xStart, y |-> yStart], end |-> [x |-> xEnd, y |-> yEnd],
     lineType |-> lineType, color |-> color, isVoid |-> isVoid, arcTaps |-> arcTaps]

\* the arctap times of the bracket of an arc line
ArcTapTimes(arctaps) ==
    IF arctaps = <<>> THEN <<>>
    ELSE Bind(split(arctaps, ","), LAMBDA t :
            [i \in 1..Len(t) |-> parseInt(substring(t[i], Len(<<"a", "r", "c", "t", "a", "p", "(">>), Len(t[i]) - 1))])

ArcFromRaw(line) ==
    IF ~startsWith(line, <<"a", "r", "c">>) THEN Throw("AffFormatError")
    ELSE Bind(MatchArc(line), LAMBDA event :
        IF ~event.matched THEN Throw("TypeError")
        ELSE Returns(Arc(parseInt(event.groups[1]), parseInt(event.groups[2]),
                         parseFloat(event.groups[3]), parseFloat(event.groups[4]),
                         event.groups[5],
                         parseFloat(event.groups[6]), parseFloat(event.groups[7]),
                         parseInt(event.groups[8]),
                         event.groups[10] = <<"t", "r", "u", "e">>,
                         ArcTapTimes(event.groups[11]))))

\* the arctaps of Arc.export from the i-th on: each one's export less its
\* last character, joined by ","
RECURSIVE ArcTapsExport(_, _, _)
ArcTapsExport(arcTaps, i, offset) ==
    IF i > Len(arcTaps) THEN <<>>
    ELSE Bind(ArctapNoteExport(arcTaps[i], offset), LAMBDA l :
            (IF i = 1 THEN <<>> ELSE <<",">>) \o substring(l, 0, Len(l) - 1)
                \o ArcTapsExport(arcTaps, i + 1, offset))

BooleanToString(b) == IF b THEN <<"t", "r", "u", "e">> ELSE <<"f", "a", "l", "s", "e">>

ArcExport(e, offset) ==
    Bind(numTo2f(e.start.x), LAMBDA xs :
    IF xs.thrown # "none" THEN xs
    ELSE Bind(numTo2f(e.end.x), LAMBDA xe :
    IF xe.thrown # "none" THEN xe
    ELSE Bind(numTo2f(e.start.y), LAMBDA ys :
    IF ys.thrown # "none" THEN ys
    ELSE Bind(numTo2f(e.end.y), LAMBDA ye :
    IF ye.thrown # "none" THEN ye
    ELSE Bind(<<"a", "r", "c", "(">> \o NumberToString(Add(e.time, offset)) \o <<",">>
                  \o NumberToString(Add(e.endTime, offset)) \o <<",">>
                  \o xs.value \o <<",">> \o xe.value \o <<",">>
                  \o e.lineType \o <<",">> \o ys.value \o <<",">> \o ye.value \o <<",">>
                  \o NumberToString(e.color) \o <<",", "n", "o", "n", "e", ",">>
                  \o BooleanToString(e.isVoid) \o <<")">>, LAMBDA line :
    IF Len(e.arcTaps) = 0 THEN Returns(line \o <<";">>)
    ELSE Returns(line \o <<"[">> \o ArcTapsExport(e.arcTaps, 1, offset) \o <<"]", ";">>))))))

TimingEvent(time, bpm, beatsPerLine) ==
    [class |-> "TimingEvent", time |-> time, bpm |-> bpm, beatsPerLine |-> beatsPerLine]

TimingEventFromRaw(line) ==
    Bind(MatchFields(line, <<"t", "i", "m", "i", "n", "g", "(">>, 3), LAMBDA result :
        IF ~result.matched THEN Throw("TypeError")
        ELSE Returns(TimingEvent(parseInt(result.groups[1]), parseFloat(result.groups[2]),
                                 parseFloat(result.groups[3]))))

TimingEventExport(e, offset) ==
    Bind(numTo2f(e.bpm), LAMBDA bpm :
    IF bpm.thrown # "none" THEN bpm
    ELSE Bind(numTo2f(e.beatsPerLine), LAMBDA beatsPerLine :
    IF beatsPerLine.thrown # "none" THEN beatsPerLine
    ELSE Returns(<<"t", "i", "m", "i", "n", "g", "(">> \o NumberToString(Add(e.time, offset)) \o <<",">>
                     \o bpm.value \o <<",">> \o beatsPerLine.value \o <<")", ";">>)))

CameraEvent(time, tx, ty, tz, rx, ry, rz, type, duration) ==
    [class |-> "CameraEvent", time |-> time,
     translation |-> [x |-> tx, y |-> ty, z |-> tz],
     rotation |-> [x |-> rx, y |-> ry, z |-> rz],
     type |-> type, duration |-> duration]

CameraEventFromRaw(line) ==
    Bind(MatchFields(line, <<"c", "a", "m", "e", "r", "a", "(">>, 9), LAMBDA result :
        IF ~result.matched THEN Throw("TypeError")
        ELSE Returns(CameraEvent(parseInt(result.groups[1]),
                                 parseFloat(result.groups[2]), parseFloat(result.groups[3]),
                                 parseFloat(result.groups[4]), parseFloat(result.groups[5]),
                                 parseFloat(result.groups[6]), parseFloat(result.groups[7]),
                                 result.groups[8], parseInt(result.groups[9]))))

CameraEventExport(e, offset) ==
    Returns(<<"c", "a", "m", "e", "r", "a", "(">> \o NumberToString(Add(e.time, offset)) \o <<",">>
                \o NumberToString(e.translation.x) \o <<",">>
                \o NumberToString(e.translation.y) \o <<",">>
                \o NumberToString(e.translation.z) \o <<",">>
                \o NumberToString(e.rotation.x) \o <<",">>
                \o NumberToString(e.rotation.y) \o <<",">>
                \o NumberToString(e.rotation.z) \o <<",">>
                \o e.type \o <<",">> \o NumberToString(e.duration) \o <<")", ";">>)

\* ArcaeaEvent.fromRaw: the variant is chosen by what stands before the
\* first "("; a line without one is no event
ArcaeaEventFromRaw(line) ==
    Bind(indexOf(line, <<"(">>), LAMBDA index :
    IF index = 0 THEN Returns(Null)
    ELSE Bind(substring(line, 0, index - 1), LAMBDA type :
        IF type = <<>> THEN TapNoteFromRaw(line)
        ELSE IF type = <<"h", "o", "l", "d">> THEN HoldNoteFromRaw(line)
        ELSE IF type = <<"a", "r", "c">> THEN ArcFromRaw(line)
        ELSE IF type = <<"t", "i", "m", "i", "n", "g">> THEN TimingEventFromRaw(line)
        ELSE IF type = <<"c", "a", "m", "e", "r", "a">> THEN CameraEventFromRaw(line)
        ELSE Throw("AffFormatError")))

\* e.export(offset), by the event's class
EventExport(e, offset) ==
    IF e.class = "TapNote" THEN TapNoteExport(e, offset)
    ELSE IF e.class = "HoldNote" THEN HoldNoteExport(e, offset)
    ELSE IF e.class = "Arc" THEN ArcExport(e, offset)
    ELSE IF e.class = "TimingEvent" THEN TimingEventExport(e, offset)
    ELSE IF e.class = "CameraEvent" THEN CameraEventExport(e, offset)
    ELSE Throw("AffExportError")

(***************************************************************************)
(* TimingGroup and Chart: the codec.                                       *)
(***************************************************************************)
TimingGroup(isPrimary) == [isPrimary |-> isPrimary, events |-> <<>>]

\* the lines of the events of a group from the i-th on
RECURSIVE EventsExport(_, _, _)
EventsExport(group, i, offset) ==
    IF i > Len(group.events) THEN Returns(<<>>)
    ELSE Bind(EventExport(group.events[i], offset), LAMBDA line :
         IF line.thrown # "none" THEN line
         ELSE Bind(EventsExport(group, i + 1, offset), LAMBDA rest :
              IF rest.thrown # "none" THEN rest
              ELSE Returns((IF group.isPrimary THEN <<>> ELSE <<" ", " ", " ", " ">>)
                               \o line.value \o <<"\n">> \o rest.value)))

TimingGroupExport(group, offset) ==
    Bind(EventsExport(group, 1, offset), LAMBDA content :
        IF content.thrown # "none" THEN content
        ELSE Returns((IF group.isPrimary THEN <<>> ELSE <<"t", "i", "m", "i", "n", "g", "g", "r", "o", "u", "p", "(", ")", "{">> \o <<"\n">>)
                         \o content.value
                         \o (IF group.isPrimary THEN <<>> ELSE <<"}", ";">> \o <<"\n">>)))

\* timingGroups.map(t => t.export(offset)).join("") from the i-th group on
RECURSIVE GroupsExport(_, _, _)
GroupsExport(groups, i, offset) ==
    IF i > Len(groups) THEN Returns(<<>>)
    ELSE Bind(TimingGroupExport(groups[i], offset), LAMBDA content :
         IF content.thrown # "none" THEN content
         ELSE Bind(GroupsExport(groups, i + 1, offset), LAMBDA rest :
              IF rest.thrown # "none" THEN rest
              ELSE Returns(content.value \o rest.value)))

\* Chart.export(fixOffset)
ChartExport(chart, fixOffset) ==
    LET header == <<"A", "u", "d", "i", "o", "O", "f", "f", "s", "e", "t", ":">>
                      \o NumberToString(IF fixOffset THEN Zero ELSE chart.offset)
                      \o <<"\n">> \o <<"-">> \o <<"\n">>
    IN  Bind(GroupsExport(chart.timingGroups, 1, IF fixOffset THEN chart.offset ELSE Zero),
             LAMBDA body : IF body.thrown # "none" THEN body ELSE Returns(header \o body.value))

\* new Chart() with the primary group pushed
NewChart == [offset |-> Zero, timingGroups |-> <<TimingGroup(TRUE)>>]

\* lines.forEach of a Chart.fromRaw whose closer line leaves targetGroup as
\* it is
RECURSIVE ReadLinesNoCloser(_, _, _, _)
ReadLinesNoCloser(lines, i, chart, target) ==
    IF i >= Len(lines) THEN Returns(chart)
    ELSE IF i = 0
    THEN Bind(MatchAudioOffset(trim(lines[i + 1])), LAMBDA result :
            IF ~result.matched THEN Throw("AffFormatError")
            ELSE Bind([chart EXCEPT !.offset = parseFloat(result.groups[1])],
                      LAMBDA next : ReadLinesNoCloser(lines, i + 1, next, target)))
    ELSE IF i = 1
    THEN IF trim(lines[i + 1]) # <<"-">> THEN Throw("AffFormatError")
         ELSE ReadLinesNoCloser(lines, i + 1, chart, target)
    ELSE IF startsWith(lines[i + 1], <<"t", "i", "m", "i", "n", "g", "g", "r", "o", "u", "p", "(">>)
    THEN Bind([chart EXCEPT !.timingGroups = Append(@, TimingGroup(FALSE))],
              LAMBDA next : ReadLinesNoCloser(lines, i + 1, next, Len(next.timingGroups)))
    ELSE IF startsWith(lines[i + 1], <<"}", ";">>)
    THEN ReadLinesNoCloser(lines, i + 1, chart, target)
    ELSE Bind(trim(lines[i + 1]), LAMBDA line :
         Bind(ArcaeaEventFromRaw(line), LAMBDA event :
            IF event.thrown # "none" THEN event
            ELSE IF event.value.class = "null" THEN ReadLinesNoCloser(lines, i + 1, chart, target)
            ELSE Bind([chart EXCEPT !.timingGroups[target].events = Append(@, event.value)],
                      LAMBDA next : ReadLinesNoCloser(lines, i + 1, next, target))))

\* lines.forEach of Chart.fromRaw from line i on (i counts from 0 as in the
\* source); target is the position of targetGroup in chart.timingGroups
RECURSIVE ReadLines(_, _, _, _)
ReadLines(lines, i, chart, target) ==
    IF i >= Len(lines) THEN Returns(chart)
    ELSE IF i = 0
    THEN Bind(MatchAudioOffset(trim(lines[i + 1])), LAMBDA result :
            IF ~result.matched THEN Throw("AffFormatError")
            ELSE Bind([chart EXCEPT !.offset = parseFloat(result.groups[1])],
                      LAMBDA next : ReadLines(lines, i + 1, next, target)))
    ELSE IF i = 1
    THEN IF trim(lines[i + 1]) # <<"-">> THEN Throw("AffFormatError")
         ELSE ReadLines(lines, i + 1, chart, target)
    ELSE IF startsWith(lines[i + 1], <<"t", "i", "m", "i", "n", "g", "g", "r", "o", "u", "p", "(">>)
    THEN Bind([chart EXCEPT !.timingGroups = Append(@, TimingGroup(FALSE))],
              LAMBDA next : ReadLines(lines, i + 1, next, Len(next.timingGroups)))
    ELSE IF startsWith(lines[i + 1], <<"}", ";">>)
    THEN ReadLines(lines, i + 1, chart, 1)
    ELSE Bind(trim(lines[i + 1]), LAMBDA line :
         Bind(ArcaeaEventFromRaw(line), LAMBDA event :
            IF event.thrown # "none" THEN event
            ELSE IF event.value.class = "null" THEN ReadLines(lines, i + 1, chart, target)
            ELSE Bind([chart EXCEPT !.timingGroups[target].events = Append(@, event.value)],
                      LAMBDA next : ReadLines(lines, i + 1, next, target))))

\* Chart.fromRaw
ChartFromRaw(text) ==
    Bind(split(text, "\n"), LAMBDA lines : ReadLines(lines, 0, NewChart, 1))

(***************************************************************************)
(* TimingManager.instance.dropRate, as the constructor sets it.            *)
(***************************************************************************)
DropRate == 100
getDropRate == I(DropRate)

(***************************************************************************)
(* TimingGroup.  ts is the list getTimingEvents() returns: the group's     *)
(* TimingEvents [time, bpm], sorted ascending by time (1-based here, where *)
(* the source counts from 0).                                              *)
(***************************************************************************)
getBaseBpm(ts) ==
    IF Len(ts) = 0 THEN Throw("AffFormatError") ELSE Ok(ts[1].bpm)

getBpmByTiming(ts, timing) ==
    LET hits == {i \in 1..(Len(ts) - 1) :
                    timing > ts[i].time /\ timing < ts[i + 1].time}
    IN  IF hits # {} THEN Ok(ts[Min(hits)].bpm)
        ELSE IF Len(ts) = 0 THEN Throw("TypeError")
        ELSE Ok(ts[Len(ts)].bpm)

\* PosIndex with the interval open at its start (the test of getBpmByTiming)
PosIndexOpenStart(ts, x) ==
    LET hits == {i \in 1..(Len(ts) - 1) : x > ts[i].time /\ x < ts[i + 1].time}
        found == IF hits = {} THEN 1 ELSE Min(hits)
    IN  IF Len(ts) # 0 /\ x > ts[Len(ts)].time THEN Len(ts) ELSE found

\* the two index loops of getPosByTimingWithStart (they break at the first
\* hit), followed by the override for a time at or past the last breakpoint
PosIndex(ts, x) ==
    LET hits == {i \in 1..(Len(ts) - 1) : x >= ts[i].time /\ x < ts[i + 1].time}
        found == IF hits = {} THEN 1 ELSE Min(hits)
    IN  IF Len(ts) # 0 /\ x >= ts[Len(ts)].time THEN Len(ts) ELSE found

\* PosSegment without the branch of the interior intervals
PosSegmentNoInterior(ts, i, a, b, current, target, base) ==
    IF i = a
    THEN Mul(Div(Mul(I(ts[i + 1].time + 0 - current), ts[i].bpm), base), getDropRate)
    ELSE IF i # b
    THEN Zero
    ELSE Mul(Div(Mul(I(target - ts[i].time + 0), ts[i].bpm), base), getDropRate)

\* one pass of the summing loop of getPosByTimingWithStart (offset is 0 by then)
PosSegment(ts, i, a, b, current, target, base) ==
    IF i = a
    THEN Mul(Div(Mul(I(ts[i + 1].time + 0 - current), ts[i].bpm), base), getDropRate)
    ELSE IF i # b
    THEN Mul(Div(Mul(I(ts[i + 1].time - ts[i].time - 0), ts[i].bpm), base), getDropRate)
    ELSE Mul(Div(Mul(I(target - ts[i].time + 0), ts[i].bpm), base), getDropRate)

RECURSIVE PosLoop(_, _, _, _, _, _, _, _)
PosLoop(ts, i, a, b, current, target, base, pos) ==
    IF i > b THEN pos
    ELSE PosLoop(ts, i + 1, a, b, current, target, base,
                 Add(pos, PosSegment(ts, i, a, b, current, target, base)))

\* pos of getPosByTimingWithStart before the sign is applied
PosSum(ts, current, target, base) ==
    LET a == PosIndex(ts, current)
        b == PosIndex(ts, target)
    IN  IF a = b
        THEN Add(Zero, Mul(Div(Mul(I(target - current), ts[a].bpm), base), getDropRate))
        ELSE PosLoop(ts, a, a, b, current, target, base, Zero)

\* getPosByTimingWithStart returning pos also for a start after the target
getPosByTimingWithStartUnsigned(ts, offset, start, timing) ==
    LET current == (IF start > timing THEN timing ELSE start) - offset
        target == (IF start > timing THEN start ELSE timing) - offset
    IN  IF getBaseBpm(ts).thrown # "none" THEN getBaseBpm(ts)
        ELSE Ok(PosSum(ts, current, target, getBaseBpm(ts).value))

getPosByTimingWithStart(ts, offset, start, timing) ==
    LET current == (IF start > timing THEN timing ELSE start) - offset
        target == (IF start > timing THEN start ELSE timing) - offset
        reverse == start > timing
    IN  IF getBaseBpm(ts).thrown # "none" THEN getBaseBpm(ts)
        ELSE LET pos == PosSum(ts, current, target, getBaseBpm(ts).value)
             IN  Ok(IF reverse THEN Neg(pos) ELSE pos)

\* getPosByTiming: the start is the clock, GameplayManager.instance.timing
getPosByTiming(ts, offset, clk, timing) ==
    getPosByTimingWithStart(ts, offset, clk, timing)

\* the interval of the clock in getTimingByPos (the loop has no break: the
\* last hit stands)
StartIndex(ts, offset, time) ==
    LET hits == {i \in 1..(Len(ts) - 1) :
                    time >= ts[i].time + offset /\ time < ts[i + 1].time + offset}
        found == IF hits = {} THEN 1 ELSE Max(hits)
    IN  IF time >= ts[Len(ts)].time + offset THEN Len(ts) ELSE found

BracketClosed(startPos, delta, endPos) ==
    \/ Le(Add(startPos, delta), endPos) /\ Ge(startPos, endPos)
    \/ Ge(Add(startPos, delta), endPos) /\ Le(startPos, endPos)

BracketOpen(startPos, delta, endPos) ==
    \/ Lt(Add(startPos, delta), endPos) /\ Gt(startPos, endPos)
    \/ Gt(Add(startPos, delta), endPos) /\ Lt(startPos, endPos)

\* delta of interval i in the search loop of getTimingByPos
LoopDelta(ts, offset, time, songLength, start, i) ==
    LET rate == Div(ts[i].bpm, ts[1].bpm)
    IN  IF i = start
        THEN Mul(Mul(I(ts[i + 1].time + offset - time), rate), getDropRate)
        ELSE IF i # Len(ts)
        THEN Mul(Mul(I(ts[i + 1].time - ts[i].time), rate), getDropRate)
        ELSE Mul(Mul(I(songLength - ts[i].time - offset), rate), getDropRate)

\* the search loop of getTimingByPos from interval i on; breakPos 0 stands
\* for the source's -1 (no interval brackets endPos)
RECURSIVE TimeLoop(_, _, _, _, _, _, _, _, _, _)
TimeLoop(ts, offset, time, songLength, endPos, depth, start, i, startPos, depthCount) ==
    IF i > Len(ts) THEN [breakPos |-> 0, startPos |-> startPos]
    ELSE LET delta == LoopDelta(ts, offset, time, songLength, start, i)
             hit == IF i = start THEN BracketClosed(startPos, delta, endPos)
                    ELSE BracketOpen(startPos, delta, endPos)
         IN  IF hit /\ depth = depthCount
             THEN [breakPos |-> i, startPos |-> startPos]
             ELSE TimeLoop(ts, offset, time, songLength, endPos, depth, start, i + 1,
                           Add(startPos, delta),
                           IF hit THEN depthCount + 1 ELSE depthCount)

\* delta / (((bpm || 1) / base) * dropRate)
Unscale(ts, i, delta) ==
    Div(delta, Mul(Div(OrOne(ts[i].bpm), ts[1].bpm), getDropRate))

getTimingByPos(ts, time, offset, songLength, pos, depth) ==
    IF Len(ts) = 0 THEN Throw("TypeError")
    ELSE
    LET end == Len(ts)
        start == StartIndex(ts, offset, time)
        endPos == pos
    IN  IF start = end
        THEN LET endTime == Add(Unscale(ts, end, Sub(endPos, Zero)), I(time))
             IN  Ok(IF Gt(endTime, I(songLength)) THEN I(songLength) ELSE Floor(endTime))
        ELSE LET w == TimeLoop(ts, offset, time, songLength, endPos, depth, start, start,
                               Zero, 0)
                 breakPos == w.breakPos
                 delta == Sub(endPos, w.startPos)
                 endTime ==
                    IF breakPos = start
                    THEN IF Eq(delta, Zero)
                         THEN (IF Eq(ts[breakPos].bpm, Zero)
                               THEN I(ts[breakPos].time + offset)
                               ELSE I(time))
                         ELSE Add(Unscale(ts, breakPos, delta), I(time))
                    ELSE IF breakPos # 0
                    THEN Add(Add(Unscale(ts, breakPos, delta), I(ts[breakPos].time)),
                             I(offset))
                    ELSE I(songLength)
             IN  Ok(IF Gt(endTime, I(songLength)) THEN I(songLength) ELSE Floor(endTime))


(***************************************************************************)
(* The state.  timings, clock, audioOffset, songLength and call are the    *)
(* state of the timing conversion engine: a group's timing events, the     *)
(* playback clock GameplayManager.instance.timing, the audio offset        *)
(* audioManager.offset, the song's length GameplayManager.instance.length  *)
(* and the query in flight with what it returns to its caller.  raw, chart,*)
(* exported and reparsed are the state of the codec: a chart text, what    *)
(* Chart.fromRaw makes of it, what Chart.export makes of that chart, and   *)
(* what Chart.fromRaw makes of the exported text.                          *)
(***************************************************************************)
VARIABLES timings, clock, audioOffset, songLength, call,
          raw, chart, exported, reparsed,
          taps, holds, arcs, arcGroups, events, cached

timingVars == <<timings, clock, audioOffset, songLength, call>>
codecVars == <<raw, chart, exported, reparsed>>
\* the notes that the managers of a game hold (taps, holds, arcs, and the
\* arcGroup lists that the arcs refer to), and the event list of a timing
\* group with the list its getTimingEvents has cached
playVars == <<taps, holds, arcs, arcGroups, events, cached>>
vars == <<timings, clock, audioOffset, songLength, call, raw, chart, exported, reparsed,
          taps, holds, arcs, arcGroups, events, cached>>

\* a call that was not made yet
Pending == [thrown |-> "pending", value |-> NaN]
NoExport == [fixOffset |-> FALSE, text |-> Pending]
NoCall == [op |-> "none", a1 |-> Zero, a2 |-> Zero, ret |-> Ok(Zero)]

\* no chart text was read
CodecIdle ==
    /\ raw = <<>>
    /\ chart = Pending
    /\ exported = NoExport
    /\ reparsed = Pending

\* no game is loaded and the group has no event
PlayIdle ==
    /\ taps = <<>>
    /\ holds = <<>>
    /\ arcs = <<>>
    /\ arcGroups = <<>>
    /\ events = <<>>
    /\ cached = <<>>

\* no query is made of the timing engine
TimingIdle ==
    /\ timings = <<>>
    /\ clock = 0
    /\ audioOffset = 0
    /\ songLength = 0
    /\ call = NoCall

\* the tempos a timing event may carry: reversed, stopped, base and double
BpmValues == {-1, 0, 1, 2}
FirstTimes == {1}
Gaps == {2}
Offsets == {0, 1}

\* the times of k breakpoints, ascending as getTimingEvents sorts them
RECURSIVE TimeLists(_)
TimeLists(k) ==
    IF k = 0 THEN {<<>>}
    ELSE IF k = 1 THEN {<<t>> : t \in FirstTimes}
    ELSE {Append(l, l[k - 1] + g) : l \in TimeLists(k - 1), g \in Gaps}

TimingLists ==
    UNION {{[i \in 1..k |-> [time |-> tl[i], bpm |-> I(bl[i])]] :
                tl \in TimeLists(k), bl \in [1..k -> BpmValues]} : k \in 0..MaxTimings}

LastTime == Max(FirstTimes) + (MaxTimings - 1) * Max(Gaps)
QueryTimes == 0..(LastTime + 2)
SongLengths == {LastTime + 3}

TimingInit ==
    /\ timings \in TimingLists
    /\ clock = 0
    /\ audioOffset \in Offsets
    /\ songLength \in SongLengths
    /\ call = NoCall
    /\ CodecIdle
    /\ PlayIdle

\* the audio clock moves: playback, a seek forward or backward
Seek(c) ==
    /\ call = NoCall
    /\ clock' = c
    /\ c # clock
    /\ UNCHANGED <<timings, audioOffset, songLength, call>>
    /\ UNCHANGED codecVars
    /\ UNCHANGED playVars

\* the track's scroll speed is read at the clock (GameBase, the update loop)
CallGetBpmByTiming ==
    /\ call = NoCall
    /\ call' = [op |-> "getBpmByTiming", a1 |-> I(clock - audioOffset), a2 |-> Zero,
                ret |-> getBpmByTiming(timings, clock - audioOffset)]
    /\ UNCHANGED <<timings, clock, audioOffset, songLength>>
    /\ UNCHANGED codecVars
    /\ UNCHANGED playVars

\* getPosByTiming(t): getPosByTimingWithStart(clock, t)
CallGetPosByTiming(t) ==
    /\ call = NoCall
    /\ call' = [op |-> "getPosByTimingWithStart", a1 |-> I(clock), a2 |-> I(t),
                ret |-> getPosByTiming(timings, audioOffset, clock, t)]
    /\ UNCHANGED <<timings, clock, audioOffset, songLength>>
    /\ UNCHANGED codecVars
    /\ UNCHANGED playVars

\* the positions asked of getTimingByPos: those of the query times as seen
\* from the clock, the two of updateRenderRange, and one far behind
PosInputs ==
    {getPosByTiming(timings, audioOffset, clock, t).value : t \in QueryTimes}
        \cup {I(0), I(100000), I(-100000)}
Depths == {0, 1}

CallGetTimingByPos(pos, depth) ==
    /\ call = NoCall
    /\ call' = [op |-> "getTimingByPos", a1 |-> pos, a2 |-> I(depth),
                ret |-> getTimingByPos(timings, clock, audioOffset, songLength, pos, depth)]
    /\ UNCHANGED <<timings, clock, audioOffset, songLength>>
    /\ UNCHANGED codecVars
    /\ UNCHANGED playVars

\* the caller takes the result
Return ==
    /\ call # NoCall
    /\ call' = NoCall
    /\ UNCHANGED <<timings, clock, audioOffset, songLength>>
    /\ UNCHANGED codecVars
    /\ UNCHANGED playVars

\* the forward conversions only
PosNext ==
    \/ \E c \in QueryTimes : Seek(c)
    \/ CallGetBpmByTiming
    \/ \E t \in QueryTimes : CallGetPosByTiming(t)
    \/ Return

PosSpec == TimingInit /\ [][PosNext]_vars

\* the forward conversions and the inverse
TimingNext ==
    \/ \E c \in QueryTimes : Seek(c)
    \/ CallGetBpmByTiming
    \/ \E t \in QueryTimes : CallGetPosByTiming(t)
    \/ \E pos \in PosInputs, depth \in Depths : CallGetTimingByPos(pos, depth)
    \/ Return

TimingSpec == TimingInit /\ [][TimingNext]_vars

(***************************************************************************)
(* The chart texts of the model.                                           *)
(***************************************************************************)
\* the event lines a chart editor writes, one of each variant, with the
\* opener and the closer of a timing group
TapLine == <<"(", "1", ",", "2", ")", ";">>
HoldLine == <<"h", "o", "l", "d", "(", "1", ",", "3", ",", "2", ")", ";">>
ArcLine == <<"a", "r", "c", "(", "2", ",", "4", ",", "0", ".", "2", "5", ",", "1", ".", "0", "0", ",", "s", "i", ",", "0", ".", "0", "0", ",", "0", ".", "0", "5", ",", "1", ",", "n", "o", "n", "e", ",", "t", "r", "u", "e", ")", "[", "a", "r", "c", "t", "a", "p", "(", "2", ")", ",", "a", "r", "c", "t", "a", "p", "(", "3", ")", "]", ";">>
TimingLine == <<"t", "i", "m", "i", "n", "g", "(", "0", ",", "1", ".", "5", "0", ",", "4", ".", "0", "0", ")", ";">>
CameraLine == <<"c", "a", "m", "e", "r", "a", "(", "1", ",", "0", ".", "5", ",", "1", ",", "0", ",", "0", ",", "0", ",", "-", "2", ",", "q", "i", ",", "3", ")", ";">>
OpenerLine == <<"t", "i", "m", "i", "n", "g", "g", "r", "o", "u", "p", "(", ")", "{">>
CloserLine == <<"}", ";">>
EditorLines ==
    {TapLine, HoldLine, ArcLine, TimingLine, CameraLine, OpenerLine, CloserLine}

\* other lines: an arc without arctaps, a fast tempo, an indented event, a
\* blank line, lines that are no events, events with a field that is no
\* number or that is out of the exporter's range or precision, a negative
\* time
OtherLines ==
    {<<"a", "r", "c", "(", "1", ",", "3", ",", "-", "0", ".", "5", "0", ",", "1", ".", "0", "0", ",", "s", ",", "1", ".", "0", "0", ",", "0", ".", "5", "0", ",", "0", ",", "n", "o", "n", "e", ",", "f", "a", "l", "s", "e", ")", ";">>,
     <<"t", "i", "m", "i", "n", "g", "(", "2", ",", "1", "2", "0", ".", "0", "0", ",", "4", ".", "0", "0", ")", ";">>,
     <<" ", " ", " ", " ", "(", "2", ",", "1", ")", ";">>,
     <<>>,
     <<"g", "a", "r", "b", "a", "g", "e">>,
     <<"f", "o", "o", "(", "1", ",", "2", ")", ";">>,
     <<"h", "o", "l", "d", "(", "1", ",", "2", ")", ";">>,
     <<"(", "x", ",", "2", ")", ";">>,
     <<"t", "i", "m", "i", "n", "g", "(", "0", ",", "0", ".", "0", "0", "5", ",", "4", ".", "0", "0", ")", ";">>,
     <<"t", "i", "m", "i", "n", "g", "(", "0", ",", "1", ".", "3", "7", "5", ",", "4", ".", "0", "0", ")", ";">>,
     <<"a", "r", "c", "(", "-", "1", ",", "3", ",", "0", ".", "0", "0", ",", "1", ".", "0", "0", ",", "s", ",", "1", ".", "0", "0", ",", "0", ".", "5", "0", ",", "0", ",", "n", "o", "n", "e", ",", "f", "a", "l", "s", "e", ")", ";">>,
     <<"(", "-", "1", ",", "2", ")", ";">>}

\* the first lines and the second lines of the texts
OffsetLines ==
    {<<"A", "u", "d", "i", "o", "O", "f", "f", "s", "e", "t", ":", "0">>, <<"A", "u", "d", "i", "o", "O", "f", "f", "s", "e", "t", ":", "2">>, <<"A", "u", "d", "i", "o", "O", "f", "f", "s", "e", "t", ":", "-", "3">>, <<"A", "u", "d", "i", "o", "O", "f", "f", "s", "e", "t", ":">>,
     <<"A", "u", "d", "i", "o", "O", "f", "f", "s", "e", "t", ":", "1", ".", "5">>, <<"x", "A", "u", "d", "i", "o", "O", "f", "f", "s", "e", "t", ":", "5", "y">>, <<"O", "f", "f", "s", "e", "t", ":", "5">>, <<>>}
SecondLines == {<<"-">>, <<" ", "-", " ">>, <<"-", "-">>, <<>>}

\* the sequences of at most k lines of a set
RECURSIVE LineLists(_, _)
LineLists(S, k) ==
    IF k = 0 THEN {<<>>}
    ELSE LineLists(S, k - 1)
             \cup {Append(l, x) : l \in {m \in LineLists(S, k - 1) : Len(m) = k - 1}, x \in S}

\* lines.join("\n")
RECURSIVE JoinLines(_)
JoinLines(lines) ==
    IF Len(lines) = 0 THEN <<>>
    ELSE IF Len(lines) = 1 THEN lines[1]
    ELSE lines[1] \o <<"\n">> \o JoinLines(Tail(lines))

\* bodies of one line more than MaxLines, of taps and holds inside and
\* outside of timing groups
GroupedBodies ==
    {l \in LineLists({TapLine, HoldLine, OpenerLine, CloserLine}, MaxLines + 1) :
        Len(l) = MaxLines + 1}

\* the texts: a sound header before editor lines; other lines alone, after
\* an event and inside a group; every header before nothing and before an
\* event, with and without the second line
RawTexts ==
    {JoinLines(<<<<"A", "u", "d", "i", "o", "O", "f", "f", "s", "e", "t", ":", "2">>, <<"-">>>> \o body) : body \in LineLists(EditorLines, MaxLines)}
        \cup {JoinLines(<<<<"A", "u", "d", "i", "o", "O", "f", "f", "s", "e", "t", ":", "2">>, <<"-">>>> \o before \o <<x>>) :
                 before \in {<<>>, <<TapLine>>, <<OpenerLine>>}, x \in OtherLines}
        \cup {JoinLines(<<first, second>> \o body) :
                 first \in OffsetLines, second \in SecondLines, body \in {<<>>, <<TapLine>>}}
        \cup {JoinLines(<<first>>) : first \in OffsetLines}
        \cup {JoinLines(<<<<"A", "u", "d", "i", "o", "O", "f", "f", "s", "e", "t", ":", "2">>, <<"-">>>> \o body) : body \in GroupedBodies}

CodecInit ==
    /\ raw \in RawTexts
    /\ chart = Pending
    /\ exported = NoExport
    /\ reparsed = Pending
    /\ TimingIdle
    /\ PlayIdle

\* Chart.download: the text is parsed
FromRaw ==
    /\ chart = Pending
    /\ chart' = ChartFromRaw(raw)
    /\ UNCHANGED <<raw, exported, reparsed>>
    /\ UNCHANGED timingVars
    /\ UNCHANGED playVars

\* the chart is exported, with or without fixOffset
Export(fixOffset) ==
    /\ chart.thrown = "none"
    /\ exported = NoExport
    /\ exported' = [fixOffset |-> fixOffset, text |-> ChartExport(chart.value, fixOffset)]
    /\ UNCHANGED <<raw, chart, reparsed>>
    /\ UNCHANGED timingVars
    /\ UNCHANGED playVars

\* the exported text is parsed
Reparse ==
    /\ exported.text.thrown = "none"
    /\ reparsed = Pending
    /\ reparsed' = ChartFromRaw(exported.text.value)
    /\ UNCHANGED <<raw, chart, exported>>
    /\ UNCHANGED timingVars
    /\ UNCHANGED playVars

CodecNext ==
    \/ FromRaw
    \/ \E fixOffset \in BOOLEAN : Export(fixOffset)
    \/ Reparse

CodecSpec == CodecInit /\ [][CodecNext]_vars

(***************************************************************************)
(* The game.  taps holds the times of the TapNotes of TapNoteManager,      *)
(* holds the HoldNotes of HoldManager, arcs the Arcs of ArcManager.  An    *)
(* arc's arcGroup is a reference to a list shared with other arcs: it is   *)
(* the position of that list in arcGroups (0 for null), and the list holds *)
(* arcs by their position in arcs.  The notes take their tempo from the    *)
(* list timings of their timing group.                                     *)
(***************************************************************************)
\* judgeTimings with the interval they were made with (NaN where the call
\* returned before it read one); "diverges" is a call that never returns
Judged(list, interval) == [thrown |-> "none", value |-> list, interval |-> interval]
Diverges(interval) == [thrown |-> "diverges", value |-> <<>>, interval |-> interval]

\* 60000 / bpm / (bpm >= 255 ? 1 : 2)
JudgeInterval(bpm) == Div(Div(I(60000), bpm), IF Ge(bpm, I(255)) THEN I(1) ELSE I(2))

\* Math.floor(this.time + (this.endTime - this.time) * 0.5)
MidPoint(note) == Floor(Add(I(note.time), Mul(I(note.endTime - note.time), <<1, 2>>)))

\* while(true) of calculateJudgeTimings from n on: ++n only grows, so the
\* loop never breaks once n + 1 is past total
RECURSIVE JudgeLoop(_, _, _, _, _)
JudgeLoop(note, interval, total, n, out) ==
    Bind(Floor(Add(I(note.time), Mul(I(n), interval))), LAMBDA t :
    Bind(IF Lt(t, I(note.endTime)) THEN Append(out, t) ELSE out, LAMBDA pushed :
        IF Eq(total, I(n + 1)) THEN Judged(pushed, interval)
        ELSE IF ~IsFinite(total) \/ Lt(total, I(n + 1)) THEN Diverges(interval)
        ELSE JudgeLoop(note, interval, total, n + 1, pushed)))

\* HoldNote.calculateJudgeTimings; u is 0, and u ^ 1 > total is read as
\* u ^ (1 > total), which is 1 when 1 > total and 0 otherwise
HoldNoteCalculateJudgeTimings(ts, h) ==
    Bind(getBpmByTiming(ts, h.time), LAMBDA bpm :
    IF bpm.thrown # "none" THEN [thrown |-> bpm.thrown, value |-> <<>>, interval |-> NaN]
    ELSE IF Le(bpm.value, Zero) THEN Judged(<<>>, NaN)
    ELSE Bind(JudgeInterval(bpm.value), LAMBDA interval :
         Bind(Floor(Div(I(h.endTime - h.time), interval)), LAMBDA total :
            IF Gt(One, total) THEN Judged(<<MidPoint(h)>>, interval)
            ELSE JudgeLoop(h, interval, total, 1, <<>>))))

\* Arc.calculateJudgeTimings with u where the source has u ^ 1: 0 for a
\* rendered head and 1 else
ArcCalculateJudgeTimingsFromU(ts, a) ==
    IF a.isVoid \/ a.endTime = a.time THEN Judged(<<>>, NaN)
    ELSE
    Bind(getBpmByTiming(ts, a.time), LAMBDA bpm :
    IF bpm.thrown # "none" THEN [thrown |-> bpm.thrown, value |-> <<>>, interval |-> NaN]
    ELSE IF Le(bpm.value, Zero) THEN Judged(<<>>, NaN)
    ELSE Bind(JudgeInterval(bpm.value), LAMBDA interval :
         Bind(Floor(Div(I(a.endTime - a.time), interval)), LAMBDA total :
            IF Ge(I(IF a.renderHead THEN 0 ELSE 1), total)
            THEN Judged(<<MidPoint(a)>>, interval)
            ELSE JudgeLoop(a, interval, total, IF a.renderHead THEN 0 ELSE 1, <<>>))))

\* Arc.calculateJudgeTimings; u ^ 1 is 1 for a rendered head and 0 else
ArcCalculateJudgeTimings(ts, a) ==
    IF a.isVoid \/ a.endTime = a.time THEN Judged(<<>>, NaN)
    ELSE
    Bind(getBpmByTiming(ts, a.time), LAMBDA bpm :
    IF bpm.thrown # "none" THEN [thrown |-> bpm.thrown, value |-> <<>>, interval |-> NaN]
    ELSE IF Le(bpm.value, Zero) THEN Judged(<<>>, NaN)
    ELSE Bind(JudgeInterval(bpm.value), LAMBDA interval :
         Bind(Floor(Div(I(a.endTime - a.time), interval)), LAMBDA total :
            IF Ge(I(IF a.renderHead THEN 1 ELSE 0), total)
            THEN Judged(<<MidPoint(a)>>, interval)
            ELSE JudgeLoop(a, interval, total, IF a.renderHead THEN 1 ELSE 0, <<>>))))

\* Array.prototype.sort by a key, ascending and stable: items in the order
\* of keys, the sequence of their keys
StableSort(items, keys) ==
    [p \in 1..Len(items) |->
        items[CHOOSE j \in 1..Len(items) :
                 p = 1 + Cardinality({k \in 1..Len(items) :
                                         \/ Lt(keys[k], keys[j])
                                         \/ Eq(keys[k], keys[j]) /\ k < j})]]

\* Math.abs(a.end.x - b.start.x) < 0.1 && Math.abs(a.endTime - b.time) <= 9
\*     && a.end.y == b.start.y
Adjoins(a, b) ==
    /\ Lt(Sub(a.end.x, b.start.x), <<1, 10>>)
    /\ Lt(Sub(b.start.x, a.end.x), <<1, 10>>)
    /\ Abs(a.endTime - b.time) <= 9
    /\ Eq(a.end.y, b.start.y)

\* the members of more that list lacks, pushed onto list
PushAbsent(list, more) ==
    list \o SelectSeq(more, LAMBDA t : \A k \in 1..Len(list) : list[k] # t)

\* the four cases on a.arcGroup and b.arcGroup of calculateArcRelationship
JoinGroups(st, a, b) ==
    IF st.group[a] = 0 /\ st.group[b] # 0 THEN [st EXCEPT !.group[a] = st.group[b]]
    ELSE IF st.group[a] # 0 /\ st.group[b] = 0 THEN [st EXCEPT !.group[b] = st.group[a]]
    ELSE IF st.group[a] # 0 /\ st.group[b] # 0
    THEN [st EXCEPT !.lists[st.group[a]] = PushAbsent(@, st.lists[st.group[b]]),
                    !.group[b] = st.group[a]]
    ELSE [st EXCEPT !.lists = Append(@, <<a>>),
                    !.group[a] = Len(st.lists) + 1,
                    !.group[b] = Len(st.lists) + 1]

\* the body of the inner forEach for the arcs a and b
Relate(as, st, a, b) ==
    IF a = b \/ ~Adjoins(as[a], as[b]) THEN st
    ELSE Bind(IF /\ as[a].color = as[b].color
                 /\ as[a].isVoid = as[b].isVoid
                 /\ as[a].timingGroup = as[b].timingGroup
              THEN Bind(JoinGroups(st, a, b), LAMBDA joined :
                       [joined EXCEPT !.lists[joined.group[a]] = PushAbsent(@, <<b>>)])
              ELSE st,
              LAMBDA next : IF as[a].isVoid = as[b].isVoid
                            THEN [next EXCEPT !.head[b] = FALSE] ELSE next)

\* the two nested forEach: pair k is a = k \div n + 1, b = k % n + 1
RECURSIVE RelateAll(_, _, _)
RelateAll(as, st, k) ==
    IF k >= Len(as) * Len(as) THEN st
    ELSE Bind(Relate(as, st, (k \div Len(as)) + 1, (k % Len(as)) + 1),
              LAMBDA next : RelateAll(as, next, k + 1))

\* the third forEach without its sort
RECURSIVE SortGroupsUnsorted(_, _, _)
SortGroupsUnsorted(as, st, i) ==
    IF i > Len(as) THEN st
    ELSE Bind(IF st.group[i] # 0 THEN st
              ELSE [st EXCEPT !.lists = Append(@, <<i>>), !.group[i] = Len(st.lists) + 1],
              LAMBDA own : SortGroupsUnsorted(as, own, i + 1))

\* the third forEach from arc i on: an arc without a group gets a list of
\* its own, and the arc's list is sorted by time
RECURSIVE SortGroups(_, _, _)
SortGroups(as, st, i) ==
    IF i > Len(as) THEN st
    ELSE Bind(IF st.group[i] # 0 THEN st
              ELSE [st EXCEPT !.lists = Append(@, <<i>>), !.group[i] = Len(st.lists) + 1],
              LAMBDA own :
                 Bind([own EXCEPT !.lists[own.group[i]] =
                          StableSort(@, [k \in 1..Len(@) |-> I(as[@[k]].time)])],
                      LAMBDA sorted : SortGroups(as, sorted, i + 1)))

\* ArcManager.calculateArcRelationship: the arcs with arcGroup, renderHead
\* and judgeTimings set, and the lists that the arcGroups refer to
calculateArcRelationship(as, ts) ==
    Bind(RelateAll(as, [group |-> [i \in 1..Len(as) |-> 0], lists |-> <<>>,
                        head |-> [i \in 1..Len(as) |-> TRUE]], 0),
         LAMBDA related :
    Bind(SortGroups(as, related, 1),
         LAMBDA st :
            [arcs |-> [i \in 1..Len(as) |->
                          [as[i] EXCEPT !.arcGroup = st.group[i],
                                        !.renderHead = st.head[i],
                                        !.judgeTimings =
                                            ArcCalculateJudgeTimings(ts, [as[i] EXCEPT !.renderHead = st.head[i]])]],
             lists |-> st.lists]))

\* the sum of a sequence of numbers
RECURSIVE Sum(_)
Sum(s) == IF s = <<>> THEN 0 ELSE s[1] + Sum(Tail(s))

\* GameBase.countTotal without the count of a hold's head
countTotalNoHead(tp, hs, as) ==
    Len(tp)
        + Sum([i \in 1..Len(hs) |-> Len(hs[i].judgeTimings.value)])
        + Sum([i \in 1..Len(as) |->
                  IF as[i].isVoid THEN Len(as[i].arcTaps) ELSE Len(as[i].judgeTimings.value)])

\* GameBase.countCombo, with time the clock less the audio offset
countCombo(tp, hs, as, time) ==
    Len(SelectSeq(tp, LAMBDA t : t < time))
        + Sum([i \in 1..Len(hs) |->
                  Len(SelectSeq(hs[i].judgeTimings.value, LAMBDA t : Le(t, I(time))))
                      + (IF hs[i].time < time THEN 1 ELSE 0)])
        + Sum([i \in 1..Len(as) |->
                  IF as[i].isVoid THEN Len(SelectSeq(as[i].arcTaps, LAMBDA t : t < time))
                  ELSE Len(SelectSeq(as[i].judgeTimings.value, LAMBDA t : Le(t, I(time))))])

\* GameBase.countTotal
countTotal(tp, hs, as) ==
    Len(tp)
        + Sum([i \in 1..Len(hs) |-> Len(hs[i].judgeTimings.value) + 1])
        + Sum([i \in 1..Len(as) |->
                  IF as[i].isVoid THEN Len(as[i].arcTaps) ELSE Len(as[i].judgeTimings.value)])

\* GameBase.countScore: [score, combo, total]
countScore(tp, hs, as, time) ==
    Bind(OrOne(I(countTotal(tp, hs, as))), LAMBDA total :
    Bind(I(countCombo(tp, hs, as, time)), LAMBDA combo :
        Returns(<<Add(Floor(Div(Mul(I(10000000), combo), total)), combo), combo, total>>)))

\* TimingGroup.getTimingEvents: what it returns, given the event list and
\* this.timings (<<>> for null, <<list>> for a list)
getTimingEvents(evs, timingsField) ==
    IF timingsField = <<>>
    THEN Bind(SelectSeq(evs, LAMBDA n : n.class = "TimingEvent"), LAMBDA found :
            StableSort(found, [k \in 1..Len(found) |-> found[k].time]))
    ELSE timingsField[1]

\* an ArctapNote as a number, where the source compares the note itself
\* with a time: an object without valueOf converts to NaN
ArctapToNumber == NaN

\* the body of the forEach of ArcManager.judgeArcTaps for an arctap at
\* time t: its judged afterwards
JudgeArcTap(t, judged, time, offset) ==
    Bind(IF time < t + offset THEN FALSE ELSE judged, LAMBDA reset :
        IF reset THEN reset
        ELSE IF time > t + offset /\ time <= t + offset + 150 THEN TRUE
        ELSE IF Gt(ArctapToNumber, I(t + offset + 150)) THEN TRUE
        ELSE reset)

\* ArcManager.judgeArcTaps(arc)
judgeArcTaps(a, time, offset) ==
    [a EXCEPT !.tapsJudged =
        [k \in 1..Len(a.arcTaps) |-> JudgeArcTap(a.arcTaps[k], a.tapsJudged[k], time, offset)]]

\* b.judging = true for the arcs b of a list
SetJudging(as, list) ==
    [b \in 1..Len(as) |->
        IF \E k \in 1..Len(list) : list[k] = b THEN [as[b] EXCEPT !.judging = TRUE] ELSE as[b]]

\* the body of the forEach of ArcManager.judgeArcs for arc i
JudgeArc(as, lists, i, time, offset) ==
    Bind(judgeArcTaps(as[i], time, offset), LAMBDA tapped :
    Bind(IF time < tapped.time + offset
         THEN [tapped EXCEPT !.judged = FALSE, !.judging = FALSE] ELSE tapped, LAMBDA a :
        IF a.judged /\ time > a.endTime + offset THEN [as EXCEPT ![i] = a]
        ELSE IF time > a.endTime + offset THEN [as EXCEPT ![i] = [a EXCEPT !.judged = TRUE]]
        ELSE IF time > a.time + offset /\ time <= a.endTime + offset
        THEN SetJudging([as EXCEPT ![i] = IF a.isVoid THEN a ELSE [a EXCEPT !.audioPlayed = TRUE]],
                        IF a.arcGroup = 0 THEN <<>> ELSE lists[a.arcGroup])
        ELSE [as EXCEPT ![i] = [a EXCEPT !.shouldPlayAudio = TRUE]]))

\* ArcManager.judgeArcs: the forEach from arc i on
RECURSIVE judgeArcs(_, _, _, _, _)
judgeArcs(as, lists, i, time, offset) ==
    IF i > Len(as) THEN as
    ELSE Bind(JudgeArc(as, lists, i, time, offset),
              LAMBDA next : judgeArcs(next, lists, i + 1, time, offset))

\* the body of the forEach of HoldManager.judgeHoldNotes for a hold
JudgeHold(h, time, offset, isPlaying) ==
    Bind(IF time < h.time + offset
         THEN [h EXCEPT !.judged = FALSE, !.judging = FALSE] ELSE h, LAMBDA t :
        IF t.judged THEN t
        ELSE IF time >= t.time + offset /\ time <= t.endTime + offset
        THEN [t EXCEPT !.judging = TRUE,
                       !.audioPlayed = @ \/ (isPlaying /\ t.shouldPlayAudio)]
        ELSE IF time > t.endTime + offset
        THEN [t EXCEPT !.judging = FALSE, !.judged = TRUE, !.audioPlayed = TRUE]
        ELSE [t EXCEPT !.shouldPlayAudio = TRUE])

\* HoldManager.judgeHoldNotes
judgeHoldNotes(hs, time, offset, isPlaying) ==
    [i \in 1..Len(hs) |-> JudgeHold(hs[i], time, offset, isPlaying)]

(***************************************************************************)
(* The games of the model and what is done with them.                      *)
(***************************************************************************)
\* the largest number of arcs of a game, and of events pushed onto a group
MaxArcs == 4
MaxEvents == 3

\* an Arc and a HoldNote after construction (the arc's arcGroup is set
\* where the arcs are put together); tapsJudged holds the judged of the
\* arc's ArctapNotes, in the order of arcTaps
NewArc(time, endTime, xStart, xEnd, color, isVoid, timingGroup, arcTaps) ==
    [time |-> time, endTime |-> endTime,
     start |-> [x |-> xStart, y |-> One], end |-> [x |-> xEnd, y |-> One],
     color |-> color, isVoid |-> isVoid, timingGroup |-> timingGroup, arcTaps |-> arcTaps,
     tapsJudged |-> [k \in 1..Len(arcTaps) |-> FALSE],
     arcGroup |-> 0, renderHead |-> TRUE, judgeTimings |-> Judged(<<>>, NaN),
     judging |-> FALSE, judged |-> FALSE, audioPlayed |-> FALSE, shouldPlayAudio |-> FALSE]
NewHold(time, endTime) ==
    [time |-> time, endTime |-> endTime, judgeTimings |-> Judged(<<>>, NaN),
     judging |-> FALSE, judged |-> FALSE, audioPlayed |-> FALSE, shouldPlayAudio |-> FALSE]

\* ChainArcs: a chain of four arcs that follow each other (the second starts
\* 5 ms after the first ends), a second arc that ends where the second of the
\* chain starts, and an arc of another colour after the first.
\* OtherArcs: an arc and one that follows it, one of another timing group,
\* one that starts elsewhere, and a void arc with arctaps
ChainArcs ==
    {NewArc(0, 1000, Zero, <<1, 2>>, 0, FALSE, 1, <<>>),
     NewArc(1005, 2000, <<1, 2>>, One, 0, FALSE, 1, <<>>),
     NewArc(2000, 3000, One, <<1, 2>>, 0, FALSE, 1, <<>>),
     NewArc(3000, 4000, <<1, 2>>, Zero, 0, FALSE, 1, <<>>),
     NewArc(500, 1000, One, <<11, 20>>, 0, FALSE, 1, <<>>),
     NewArc(1000, 2000, <<1, 2>>, One, 1, FALSE, 1, <<>>)}
OtherArcs ==
    {NewArc(0, 1000, Zero, <<1, 2>>, 0, FALSE, 1, <<>>),
     NewArc(1000, 1400, <<1, 2>>, One, 0, FALSE, 1, <<>>),
     NewArc(1000, 1100, <<1, 2>>, One, 0, FALSE, 2, <<>>),
     NewArc(1000, 1250, One, One, 0, FALSE, 1, <<>>),
     NewArc(0, 1000, Zero, One, 0, TRUE, 1, <<0, 500>>)}

\* the lists of at most k arcs of a set, all different, as the manager
\* holds them: each with the empty arcGroup list its constructor made
ArcLists(S, k) ==
    {[i \in 1..Len(l) |-> [l[i] EXCEPT !.arcGroup = i]] :
        l \in {m \in LineLists(S, k) : \A i, j \in 1..Len(m) : i # j => m[i] # m[j]}}

HoldLists ==
    {<<>>} \cup {<<NewHold(t, t + d)>> : t \in {0, 1000}, d \in {0, 100, 250, 500}}
TapLists == {<<>>, <<0, 1000>>}
PlayBpms ==
    {<<120>>, <<255>>, <<300>>, <<0>>, <<120, 300>>, <<300, 120>>, <<120, 0>>, <<0, 120>>, <<255, 120>>}
PlayTimings ==
    {[i \in 1..Len(b) |-> [time |-> 1000 * (i - 1), bpm |-> I(b[i])]] : b \in PlayBpms}
PlayTimes == {1, 250, 1001, 5000}

\* the managers hold the notes of a chart: many arcs at one tempo, or few
\* arcs and the tempos, holds, taps and offsets of the model, or a short
\* hold at a tempo whose judge interval is half a millisecond
PlayInit ==
    /\ \/ /\ arcs \in ArcLists(ChainArcs, MaxArcs)
          /\ timings = <<[time |-> 0, bpm |-> I(120)]>>
          /\ holds = <<NewHold(0, 500)>>
          /\ taps = <<0>>
          /\ audioOffset = 0
       \/ /\ arcs \in ArcLists(OtherArcs, 2)
          /\ timings \in PlayTimings
          /\ holds \in HoldLists
          /\ taps \in TapLists
          /\ audioOffset \in Offsets
       \/ /\ arcs = <<>>
          /\ timings = <<[time |-> 0, bpm |-> I(120000)]>>
          /\ holds \in {<<NewHold(0, d)>> : d \in {1, 3}}
          /\ taps \in TapLists
          /\ audioOffset \in Offsets
    /\ arcGroups = [i \in 1..Len(arcs) |-> <<>>]
    /\ clock = 0
    /\ songLength = 5000
    /\ call = NoCall
    /\ events = <<>>
    /\ cached = <<>>
    /\ CodecIdle

\* a calculateJudgeTimings call that never returns holds the one thread
Hung == \E i \in 1..Len(holds) : holds[i].judgeTimings.thrown = "diverges"

\* ArcManager.load: calculateArcRelationship
Load ==
    /\ call = NoCall
    /\ ~Hung
    /\ \E related \in {calculateArcRelationship(arcs, timings)} :
          arcs' = related.arcs /\ arcGroups' = related.lists
    /\ UNCHANGED <<taps, holds, events, cached>>
    /\ UNCHANGED timingVars
    /\ UNCHANGED codecVars

\* holds[i].calculateJudgeTimings()
CalculateJudgeTimings(i) ==
    /\ call = NoCall
    /\ ~Hung
    /\ holds' = [holds EXCEPT ![i].judgeTimings = HoldNoteCalculateJudgeTimings(timings, holds[i])]
    /\ UNCHANGED <<taps, arcs, arcGroups, events, cached>>
    /\ UNCHANGED timingVars
    /\ UNCHANGED codecVars

\* GameBase.countScore, as the update loop calls it
CountScore ==
    /\ call = NoCall
    /\ ~Hung
    /\ call' = [op |-> "countScore", a1 |-> Zero, a2 |-> Zero,
                ret |-> countScore(taps, holds, arcs, clock - audioOffset)]
    /\ UNCHANGED <<timings, clock, audioOffset, songLength>>
    /\ UNCHANGED playVars
    /\ UNCHANGED codecVars

PlayNext ==
    \/ Load
    \/ \E i \in 1..Len(holds) : CalculateJudgeTimings(i)
    \/ \E c \in PlayTimes : Seek(c)
    \/ CountScore
    \/ Return

PlaySpec == PlayInit /\ [][PlayNext]_vars

\* the events that are pushed onto a group
PushedEvents ==
    {TimingEvent(I(0), I(120), I(4)), TimingEvent(I(1000), I(60), I(4)),
     TimingEvent(I(500), I(240), I(4)), TapNote(I(0), I(1))}

\* a TimingGroup after construction
CacheInit ==
    /\ TimingIdle
    /\ CodecIdle
    /\ PlayIdle

\* targetGroup.events.push(event)
PushEvent(e) ==
    /\ call = NoCall
    /\ Len(events) < MaxEvents
    /\ events' = Append(events, e)
    /\ UNCHANGED <<taps, holds, arcs, arcGroups, cached>>
    /\ UNCHANGED timingVars
    /\ UNCHANGED codecVars

\* a call of getTimingEvents
GetTimingEvents ==
    /\ call = NoCall
    /\ call' = [op |-> "getTimingEvents", a1 |-> Zero, a2 |-> Zero,
                ret |-> Returns(getTimingEvents(events, cached))]
    /\ cached' = <<getTimingEvents(events, cached)>>
    /\ UNCHANGED <<timings, clock, audioOffset, songLength>>
    /\ UNCHANGED <<taps, holds, arcs, arcGroups, events>>
    /\ UNCHANGED codecVars

CacheNext ==
    \/ \E e \in PushedEvents : PushEvent(e)
    \/ GetTimingEvents
    \/ Return

CacheSpec == CacheInit /\ [][CacheNext]_vars

\* the clocks of the frames of a game that is judged: the update loop
\* reads the clock where playback or a seek has put it
JudgeTimes == {0, 1, 2, 100, 400, 501, 502, 700, 1500}

\* the game is loaded: the arcs are related, the holds are those of the
\* chart
JudgeInit ==
    /\ timings = <<[time |-> 0, bpm |-> I(120)]>>
    /\ \E loaded \in ArcLists(OtherArcs, 2) :
          \E related \in {calculateArcRelationship(loaded, timings)} :
              arcs = related.arcs /\ arcGroups = related.lists
    /\ holds \in {<<>>, <<NewHold(1, 500)>>, <<NewHold(1, 500), NewHold(100, 100)>>}
    /\ taps = <<>>
    /\ audioOffset \in Offsets
    /\ clock = 0
    /\ songLength = 5000
    /\ call = NoCall
    /\ events = <<>>
    /\ cached = <<>>
    /\ CodecIdle

\* ArcManager.update with autoplay: judgeArcs
JudgeArcs ==
    /\ call = NoCall
    /\ arcs # <<>>
    /\ arcs' = judgeArcs(arcs, arcGroups, 1, clock, audioOffset)
    /\ call' = [op |-> "judgeArcs", a1 |-> I(clock), a2 |-> Zero, ret |-> Ok(Zero)]
    /\ UNCHANGED <<timings, clock, audioOffset, songLength>>
    /\ UNCHANGED <<taps, holds, arcGroups, events, cached>>
    /\ UNCHANGED codecVars

\* HoldManager.update with autoplay: judgeHoldNotes
JudgeHoldNotes(isPlaying) ==
    /\ call = NoCall
    /\ holds # <<>>
    /\ holds' = judgeHoldNotes(holds, clock, audioOffset, isPlaying)
    /\ call' = [op |-> "judgeHoldNotes", a1 |-> I(clock), a2 |-> Zero, ret |-> Ok(Zero)]
    /\ UNCHANGED <<timings, clock, audioOffset, songLength>>
    /\ UNCHANGED <<taps, arcs, arcGroups, events, cached>>
    /\ UNCHANGED codecVars

JudgeNext ==
    \/ \E c \in JudgeTimes : Seek(c)
    \/ JudgeArcs
    \/ \E isPlaying \in BOOLEAN : JudgeHoldNotes(isPlaying)
    \/ Return

JudgeSpec == JudgeInit /\ [][JudgeNext]_vars

(***************************************************************************)
(* The claims about the timing conversion engine.                          *)
(***************************************************************************)
IsPosCall == call.op = "getPosByTimingWithStart" /\ call.ret.thrown = "none"
IsTimeCall == call.op = "getTimingByPos" /\ call.ret.thrown = "none"
BaseIsNonZero == Len(timings) > 0 /\ timings[1].bpm[1] # 0
AllBpmPositive == \A i \in 1..Len(timings) : Gt(timings[i].bpm, Zero)
\* the number of breakpoint intervals between the two times of a position call
IntervalsApart ==
    Abs(PosIndex(timings, call.a1[1] - audioOffset)
            - PosIndex(timings, call.a2[1] - audioOffset))

\* C2: for the clock now and a time t with now <= t <= songLength,
\* getTimingByPos(getPosByTimingWithStart(now, t), 0) is within 1 ms of t.
\* The claim is of any timing list; it is stated here of the groups whose
\* bpm are all positive, in which no two times share a position.
C2_InverseConsistency ==
    (IsTimeCall /\ call.a2 = I(0) /\ AllBpmPositive) =>
        \A t \in QueryTimes :
            (/\ clock <= t
             /\ t <= songLength
             /\ getPosByTimingWithStart(timings, audioOffset, clock, t).value = call.a1)
                => /\ IsInteger(call.ret.value)
                   /\ Abs(call.ret.value[1] - t) <= 1

\* C3: getBpmByTiming(t) is the bpm of the breakpoint interval [time_i, time_i+1)
\* that holds t, and the last bpm for t at or past the last breakpoint.
C3_BpmOfInterval ==
    (call.op = "getBpmByTiming" /\ Len(timings) > 0) =>
        LET t == call.a1[1]
            n == Len(timings)
        IN  /\ call.ret.thrown = "none"
            /\ \A i \in 1..(n - 1) :
                  (timings[i].time <= t /\ t < timings[i + 1].time)
                      => call.ret.value = timings[i].bpm
            /\ t >= timings[n].time => call.ret.value = timings[n].bpm

\* the reference integral of C4: the overlap of [lo, hi] with each breakpoint
\* interval, the first one reaching back to minus infinity and the last one
\* on to plus infinity, weighted by the interval's bpm
Overlap(ts, i, lo, hi) ==
    LET from == IF i = 1 THEN lo ELSE Max({lo, ts[i].time})
        to == IF i = Len(ts) THEN hi ELSE Min({hi, ts[i + 1].time})
    IN  IF to > from THEN to - from ELSE 0

RECURSIVE WeightedOverlap(_, _, _, _)
WeightedOverlap(ts, i, lo, hi) ==
    IF i > Len(ts) THEN Zero
    ELSE Add(Mul(I(Overlap(ts, i, lo, hi)), ts[i].bpm), WeightedOverlap(ts, i + 1, lo, hi))

ReferencePos(ts, offset, s, t) ==
    LET lo == (IF s > t THEN t ELSE s) - offset
        hi == (IF s > t THEN s ELSE t) - offset
        sum == Mul(Div(WeightedOverlap(ts, 1, lo, hi), ts[1].bpm), getDropRate)
    IN  IF s > t THEN Neg(sum) ELSE sum

C4_Statement ==
    LET s == call.a1[1]
        t == call.a2[1]
        back == getPosByTimingWithStart(timings, audioOffset, t, s)
    IN  /\ Eq(call.ret.value, ReferencePos(timings, audioOffset, s, t))
        /\ back.thrown = "none"
        /\ Eq(back.value, Neg(call.ret.value))
        /\ s = t => Eq(call.ret.value, Zero)

\* C4, as claimed: getPosByTimingWithStart(s, t) equals the reference
\* integral, so it is antisymmetric in (s, t) and 0 for s = t.
C4_ReferenceIntegral == IsPosCall => C4_Statement

\* C4, amended: the same for a group whose base bpm is not 0.
C4_ReferenceIntegralNonZeroBase == (IsPosCall /\ BaseIsNonZero) => C4_Statement

\* a backward query that passes over a whole interior interval
C4_Witness ==
    /\ IsPosCall
    /\ BaseIsNonZero
    /\ call.a1[1] > call.a2[1]
    /\ IntervalsApart >= 2
    /\ ~IsZero(call.ret.value)

\* C5: in a group whose breakpoints all have bpm > 0,
\* getPosByTimingWithStart(s, t1) < getPosByTimingWithStart(s, t2) for t1 < t2.
C5_Monotonic ==
    (IsPosCall /\ AllBpmPositive) =>
        \A t2 \in QueryTimes :
            /\ call.a2[1] < t2 =>
                  Lt(call.ret.value,
                     getPosByTimingWithStart(timings, audioOffset, call.a1[1], t2).value)
            /\ t2 < call.a2[1] =>
                  Lt(getPosByTimingWithStart(timings, audioOffset, call.a1[1], t2).value,
                     call.ret.value)

\* a query before the start, two or more intervals away, in a group with a
\* tempo change
C5_Witness ==
    /\ IsPosCall
    /\ AllBpmPositive
    /\ Len(timings) >= 3
    /\ timings[2].bpm # timings[1].bpm
    /\ call.a2[1] < call.a1[1]
    /\ IntervalsApart >= 2

\* the breakpoint intervals with bpm 0 that hold the time t of the call
ZeroIntervalsOf(t) ==
    {i \in 1..(Len(timings) - 1) :
        /\ IsZero(timings[i].bpm)
        /\ timings[i].time <= t - audioOffset
        /\ t - audioOffset <= timings[i + 1].time}

C6_Statement ==
    \A i \in ZeroIntervalsOf(call.a2[1]) :
        \A t2 \in QueryTimes :
            i \in ZeroIntervalsOf(t2) =>
                Eq(call.ret.value,
                   getPosByTimingWithStart(timings, audioOffset, call.a1[1], t2).value)

\* C6, as claimed: inside the interval of a breakpoint with bpm 0 the
\* position does not change, for every start.
C6_ZeroBpmFreeze == IsPosCall => C6_Statement

\* C6, amended: the same for a group whose base bpm is not 0.
C6_ZeroBpmFreezeNonZeroBase == (IsPosCall /\ BaseIsNonZero) => C6_Statement

\* a query into a stopped interval from a start outside of it, the position
\* itself not being 0
C6_Witness ==
    /\ IsPosCall
    /\ BaseIsNonZero
    /\ ZeroIntervalsOf(call.a2[1]) # {}
    /\ ZeroIntervalsOf(call.a1[1]) = {}
    /\ ~IsZero(call.ret.value)

\* C7: getTimingByPos returns an integer r with 0 <= r <= songLength, for
\* every pos, depth and clock of a group with a non-zero base bpm.
C7_ResultInRange ==
    (call.op = "getTimingByPos" /\ BaseIsNonZero) =>
        /\ call.ret.thrown = "none"
        /\ IsInteger(call.ret.value)
        /\ Le(Zero, call.ret.value)
        /\ Le(call.ret.value, I(songLength))

(***************************************************************************)
(* The claims about the chart codec.                                       *)
(***************************************************************************)
ChartReturned == chart.thrown = "none"
Reparsed == reparsed # Pending
\* the lines of the text, as Chart.fromRaw takes them
RawLines == split(raw, "\n")

\* a time: a non-negative integer
IsTime(x) == IsInteger(x) /\ x[1] >= 0
\* a number that two decimals write exactly, as numTo2f exports it
TwoDecimals(x) == IsFinite(x) /\ IsInteger(Mul(x, I(100)))

WellFormedEvent(e) ==
    IF e.class = "TapNote" THEN IsTime(e.time) /\ IsInteger(e.lane)
    ELSE IF e.class = "HoldNote"
    THEN IsTime(e.time) /\ IsTime(e.endTime) /\ IsInteger(e.lane)
    ELSE IF e.class = "Arc"
    THEN /\ IsTime(e.time)
         /\ IsTime(e.endTime)
         /\ TwoDecimals(e.start.x)
         /\ TwoDecimals(e.start.y)
         /\ TwoDecimals(e.end.x)
         /\ TwoDecimals(e.end.y)
         /\ IsInteger(e.color)
         /\ \A i \in 1..Len(e.arcTaps) : IsTime(e.arcTaps[i])
    ELSE IF e.class = "TimingEvent"
    THEN IsTime(e.time) /\ TwoDecimals(e.bpm) /\ TwoDecimals(e.beatsPerLine)
    ELSE /\ IsTime(e.time)
         /\ IsFinite(e.translation.x)
         /\ IsFinite(e.translation.y)
         /\ IsFinite(e.translation.z)
         /\ IsFinite(e.rotation.x)
         /\ IsFinite(e.rotation.y)
         /\ IsFinite(e.rotation.z)
         /\ IsInteger(e.duration)

\* a chart of well-formed text: an integer offset, and in every event
\* non-negative integer times and numbers that the exporter writes exactly
WellFormedChart(c) ==
    /\ IsInteger(c.offset)
    /\ \A g \in 1..Len(c.timingGroups) :
          \A i \in 1..Len(c.timingGroups[g].events) :
              WellFormedEvent(c.timingGroups[g].events[i])

\* the events of a chart, of all its groups
EventsOf(c) ==
    UNION {{c.timingGroups[g].events[i] : i \in 1..Len(c.timingGroups[g].events)} :
              g \in 1..Len(c.timingGroups)}

\* C1: for a chart c that Chart.fromRaw returns from well-formed text,
\* c.export(false) returns a text and Chart.fromRaw of that text returns a
\* chart with the same offset, the same number of groups and in each group
\* the same events in the same order, field by field.
C1_RoundTrip ==
    (ChartReturned /\ WellFormedChart(chart.value) /\ ~exported.fixOffset) =>
        /\ exported.text.thrown \in {"none", "pending"}
        /\ Reparsed => (reparsed.thrown = "none" /\ reparsed.value = chart.value)

\* a chart of two groups with an arc that carries arctaps, a tempo that is
\* no integer and a camera event was exported and parsed again
C1_Witness ==
    /\ ChartReturned
    /\ WellFormedChart(chart.value)
    /\ ~exported.fixOffset
    /\ Reparsed
    /\ Len(chart.value.timingGroups) >= 2
    /\ \E e \in EventsOf(chart.value) : e.class = "Arc" /\ Len(e.arcTaps) >= 2
    /\ \E e \in EventsOf(chart.value) :
          (e.class = "TimingEvent" /\ ~IsInteger(e.bpm)) \/ e.class = "CameraEvent"

\* C8: Chart.fromRaw fails with AffFormatError for every text whose line 1
\* is missing or is anything other than exactly "-".
C8_SecondLineIsDash ==
    (chart # Pending /\ (Len(RawLines) < 2 \/ RawLines[2] # <<"-">>)) =>
        chart.thrown = "AffFormatError"

\* AudioOffset:<int>: an optional minus sign and one digit or more
IsAudioOffsetLine(line) ==
    /\ startsWith(line, <<"A", "u", "d", "i", "o", "O", "f", "f", "s", "e", "t", ":">>)
    /\ LET int == SubSeq(line, Len(<<"A", "u", "d", "i", "o", "O", "f", "f", "s", "e", "t", ":">>) + 1, Len(line))
           digits == IF int # <<>> /\ int[1] = "-" THEN Tail(int) ELSE int
       IN  digits # <<>> /\ \A i \in 1..Len(digits) : IsDigit(digits[i])

\* C9: Chart.fromRaw fails with AffFormatError whenever line 0 is not of
\* the form AudioOffset:<int>, and every chart it returns has an integer
\* offset.  (White space around the line is let pass here.)
C9_OffsetLineIsInt ==
    /\ (chart # Pending /\ ~IsAudioOffsetLine(trim(RawLines[1])))
           => chart.thrown = "AffFormatError"
    /\ ChartReturned => IsInteger(chart.value.offset)

\* a line that Chart.fromRaw takes for what it is: blank, a group opener, a
\* group closer, or a line of which ArcaeaEvent.fromRaw makes an event
IsRecognized(line) ==
    \/ trim(line) = <<>>
    \/ startsWith(line, <<"t", "i", "m", "i", "n", "g", "g", "r", "o", "u", "p", "(">>)
    \/ startsWith(line, <<"}", ";">>)
    \/ LET event == ArcaeaEventFromRaw(trim(line))
       IN  event.thrown = "none" /\ event.value.class # "null"

\* C10: every non-blank line from line 2 on that is no opener, no closer
\* and no well-formed event line makes Chart.fromRaw fail: when a chart is
\* returned, no such line was in the text.
C10_NoLineSkipped ==
    ChartReturned => \A i \in 3..Len(RawLines) : IsRecognized(RawLines[i])

\* the numbers of an event: the positional numeric fields of its line
NumbersOf(e) ==
    IF e.class = "TapNote" THEN {e.time, e.lane}
    ELSE IF e.class = "HoldNote" THEN {e.time, e.endTime, e.lane}
    ELSE IF e.class = "Arc"
    THEN {e.time, e.endTime, e.start.x, e.start.y, e.end.x, e.end.y, e.color}
             \cup {e.arcTaps[i] : i \in 1..Len(e.arcTaps)}
    ELSE IF e.class = "TimingEvent" THEN {e.time, e.bpm, e.beatsPerLine}
    ELSE {e.time, e.translation.x, e.translation.y, e.translation.z,
          e.rotation.x, e.rotation.y, e.rotation.z, e.duration}

\* C11: a positional numeric field that is no number makes Chart.fromRaw
\* fail: no chart it returns holds an event with a NaN field.
C11_NoNaNField ==
    ChartReturned =>
        \A e \in EventsOf(chart.value) : \A x \in NumbersOf(e) : ~IsNaN(x)

IsOpener(line) ==
    startsWith(line, <<"t", "i", "m", "i", "n", "g", "g", "r", "o", "u", "p", "(">>)
IsCloser(line) == startsWith(line, <<"}", ";">>)
\* what each line of a text is: the event of an event line, and a record
\* of class "header" for the two first lines, "opener", "closer", or Null
\* for any other line
RECURSIVE LineKinds(_, _)
LineKinds(lines, i) ==
    IF i > Len(lines) THEN <<>>
    ELSE <<IF i <= 2 THEN [class |-> "header"]
           ELSE IF IsOpener(lines[i]) THEN [class |-> "opener"]
           ELSE IF IsCloser(lines[i]) THEN [class |-> "closer"]
           ELSE Bind(ArcaeaEventFromRaw(trim(lines[i])), LAMBDA event :
                    IF event.thrown = "none" THEN event.value ELSE Null)>>
             \o LineKinds(lines, i + 1)
IsEventKind(k) == k.class \notin {"header", "opener", "closer", "null"}
\* the opener and closer lines before line i
MarksBefore(kinds, i) == {j \in 1..(i - 1) : kinds[j].class \in {"opener", "closer"}}
OpenersBefore(kinds, i) == {j \in 1..(i - 1) : kinds[j].class = "opener"}
\* the group of line i: that of the most recent opener if no closer has
\* followed it, the primary group otherwise
GroupOfLine(kinds, i) ==
    IF MarksBefore(kinds, i) = {} THEN 1
    ELSE IF kinds[Max(MarksBefore(kinds, i))].class = "closer" THEN 1
    ELSE 1 + Cardinality(OpenersBefore(kinds, i))
\* the event lines of group g
EventLinesOf(kinds, g) ==
    {i \in 1..Len(kinds) : IsEventKind(kinds[i]) /\ GroupOfLine(kinds, i) = g}
\* the k-th smallest member of a set of numbers
Nth(S, k) == CHOOSE i \in S : Cardinality({j \in S : j < i}) = k - 1
\* the events of group g in their order of appearance
RoutedEvents(kinds, g) ==
    [k \in 1..Cardinality(EventLinesOf(kinds, g)) |-> kinds[Nth(EventLinesOf(kinds, g), k)]]

\* C12: Chart.fromRaw routes each event line to the group of the most
\* recent opener if no closer has followed it and to the primary group
\* otherwise, in the order of appearance; the primary group alone is
\* primary and there is one group more than opener lines.
C12_Routing ==
    ChartReturned =>
        Bind(LineKinds(RawLines, 1), LAMBDA kinds :
            /\ Len(chart.value.timingGroups) = 1 + Cardinality(OpenersBefore(kinds, Len(kinds) + 1))
            /\ \A g \in 1..Len(chart.value.timingGroups) :
                  /\ chart.value.timingGroups[g].isPrimary = (g = 1)
                  /\ chart.value.timingGroups[g].events = RoutedEvents(kinds, g))

\* a chart with an event inside a group and with an event of the primary
\* group after that group's closer
C12_Witness ==
    /\ ChartReturned
    /\ Len(chart.value.timingGroups) >= 2
    /\ chart.value.timingGroups[2].events # <<>>
    /\ Bind(LineKinds(RawLines, 1), LAMBDA kinds :
          \E i \in 1..Len(kinds) :
              /\ kinds[i].class = "closer"
              /\ OpenersBefore(kinds, i) # {}
              /\ \E j \in EventLinesOf(kinds, 1) : j > i)

\* the fields of a line: what stands between its brackets, commas and
\* semicolons, from character i on with cur the field being read
Delimiters == {"(", ")", "[", "]", ",", ";"}
RECURSIVE Fields(_, _, _)
Fields(line, i, cur) ==
    IF i > Len(line) THEN <<cur>>
    ELSE IF line[i] \in Delimiters THEN <<cur>> \o Fields(line, i + 1, <<>>)
    ELSE Fields(line, i + 1, Append(cur, line[i]))
\* the event that each line of an export after the header is of, Null for
\* the opener and the closer of a group
RECURSIVE LineOwners(_, _)
LineOwners(groups, g) ==
    IF g > Len(groups) THEN <<>>
    ELSE (IF groups[g].isPrimary THEN groups[g].events
          ELSE <<Null>> \o groups[g].events \o <<Null>>) \o LineOwners(groups, g + 1)
\* the fields of an event's line that are times, and the stored time of each
TimeSlots(e) ==
    IF e.class \in {"TapNote", "TimingEvent", "CameraEvent"} THEN {2}
    ELSE IF e.class = "HoldNote" THEN {2, 3}
    ELSE IF e.class = "Arc" THEN {2, 3} \cup {11 + 3 * j : j \in 1..Len(e.arcTaps)}
    ELSE {}
TimeAt(e, p) ==
    IF p = 2 THEN e.time ELSE IF p = 3 THEN e.endTime ELSE e.arcTaps[(p - 11) \div 3]
\* line k of an export is as C13 has it: the time fields are the stored
\* times plus shift, the other fields those of the other export
LineShifted(e, fields, others, shift) ==
    /\ Len(fields) = Len(others)
    /\ \A p \in 1..Len(fields) :
          IF p \in TimeSlots(e)
          THEN fields[p] = NumberToString(Add(TimeAt(e, p), shift))
          ELSE fields[p] = others[p]
ExportShifted(c, fix, out, other, owners) ==
    /\ Len(out) = Len(owners) + 3
    /\ Len(other) = Len(out)
    /\ out[1] = <<"A", "u", "d", "i", "o", "O", "f", "f", "s", "e", "t", ":">>
                    \o NumberToString(IF fix THEN Zero ELSE c.offset)
    /\ out[2] = <<"-">>
    /\ \A k \in 1..Len(owners) :
          IF owners[k] = Null THEN out[k + 2] = other[k + 2]
          ELSE LineShifted(owners[k], Fields(out[k + 2], 1, <<>>), Fields(other[k + 2], 1, <<>>),
                           IF fix THEN c.offset ELSE Zero)

\* C13: export(true) writes AudioOffset:0 and every time as the stored time
\* plus the chart's offset, export(false) writes the offset and every
\* stored time unchanged; the fields that are no times are the same in both.
C13_FixOffset ==
    (ChartReturned /\ exported.text.thrown = "none") =>
        ExportShifted(chart.value, exported.fixOffset,
                      split(exported.text.value, "\n"),
                      split(ChartExport(chart.value, ~exported.fixOffset).value, "\n"),
                      LineOwners(chart.value.timingGroups, 1))

\* a chart with an offset that is not 0, with a hold and an arc that carries
\* arctaps, was exported with fixOffset
C13_Witness ==
    /\ ChartReturned
    /\ exported.text.thrown = "none"
    /\ exported.fixOffset
    /\ ~IsZero(chart.value.offset)
    /\ IsFinite(chart.value.offset)
    /\ \E e \in EventsOf(chart.value) : e.class = "Arc" /\ Len(e.arcTaps) >= 2
    /\ \E e \in EventsOf(chart.value) : e.class = "HoldNote"

\* C14: every conversion query on a group that holds no timing event fails
\* with AffFormatError.
C14_EmptyGroupFails ==
    timings = <<>> =>
        /\ getBaseBpm(timings).thrown = "AffFormatError"
        /\ call.op # "none" => call.ret.thrown = "AffFormatError"

(***************************************************************************)
(* The claims about the game.                                              *)
(***************************************************************************)
\* calculateArcRelationship has run: every arc refers to a list with members
Loaded ==
    /\ arcs # <<>>
    /\ \A i \in 1..Len(arcs) : arcs[i].arcGroup # 0 /\ arcGroups[arcs[i].arcGroup] # <<>>

\* b continues a: same timing group, colour and isVoid, b starts where and
\* when a ends
Continues(a, b) ==
    /\ a.timingGroup = b.timingGroup
    /\ a.color = b.color
    /\ a.isVoid = b.isVoid
    /\ Lt(Sub(a.end.x, b.start.x), <<1, 10>>)
    /\ Lt(Sub(b.start.x, a.end.x), <<1, 10>>)
    /\ Eq(a.end.y, b.start.y)
    /\ a.endTime - b.time <= 9
    /\ b.time - a.endTime <= 9

\* C15: after calculateArcRelationship, two distinct arcs of which one
\* continues the other refer to the same arcGroup list, whatever the order
\* of the arcs in the manager.
C15_ChainedShareGroup ==
    Loaded =>
        \A a, b \in 1..Len(arcs) :
            (a # b /\ Continues(arcs[a], arcs[b])) => arcs[a].arcGroup = arcs[b].arcGroup

\* the arcs linked to the arcs of S by chains of connected pairs
RECURSIVE Component(_)
Component(S) ==
    IF \E i \in S, j \in (1..Len(arcs)) \ S :
           Continues(arcs[i], arcs[j]) \/ Continues(arcs[j], arcs[i])
    THEN Component(S \cup {j \in 1..Len(arcs) :
                              \E i \in S : Continues(arcs[i], arcs[j]) \/ Continues(arcs[j], arcs[i])})
    ELSE S

\* C16: after calculateArcRelationship, the arcs of a connected component
\* refer to one arcGroup list, and the members of that list are the arcs of
\* the component.
C16_Transitive ==
    Loaded =>
        \A a \in 1..Len(arcs) :
            /\ \A b \in Component({a}) : arcs[a].arcGroup = arcs[b].arcGroup
            /\ {arcGroups[arcs[a].arcGroup][k] : k \in 1..Len(arcGroups[arcs[a].arcGroup])}
                   = Component({a})

\* the tempo active at time t: that of the last breakpoint at or before t
ActiveBpm(ts, t) == ts[Max({i \in 1..Len(ts) : ts[i].time <= t})].bpm
\* the notes whose calculateJudgeTimings read an interval
IntervalNotes ==
    {holds[i] : i \in 1..Len(holds)} \cup {arcs[i] : i \in 1..Len(arcs)}

\* C17: the judge interval is 60000 / bpm / 2 when 0 < bpm < 255 and
\* 60000 / bpm when bpm >= 255, with bpm the tempo active at the note's
\* start time, for holds and arcs.
C17_JudgeInterval ==
    \A note \in IntervalNotes :
        ~IsNaN(note.judgeTimings.interval) =>
            Bind(ActiveBpm(timings, note.time), LAMBDA bpm :
                /\ Gt(bpm, Zero)
                /\ Eq(note.judgeTimings.interval,
                      IF Lt(bpm, I(255)) THEN Div(I(30000), bpm) ELSE Div(I(60000), bpm)))

\* the judge instants of the game: each tap, the head and each judge timing
\* of a hold, each arctap of a void arc and each judge timing of any other
\* arc; late tells that the instant has elapsed once the time is at it
Instants ==
    {[kind |-> "tap", note |-> i, k |-> 0, at |-> I(taps[i]), late |-> FALSE] : i \in 1..Len(taps)}
      \cup {[kind |-> "hold", note |-> i, k |-> 0, at |-> I(holds[i].time), late |-> FALSE] :
               i \in 1..Len(holds)}
      \cup UNION {{[kind |-> "hold", note |-> i, k |-> k, at |-> holds[i].judgeTimings.value[k],
                    late |-> TRUE] : k \in 1..Len(holds[i].judgeTimings.value)} :
                     i \in 1..Len(holds)}
      \cup UNION {IF arcs[i].isVoid
                  THEN {[kind |-> "arc", note |-> i, k |-> k, at |-> I(arcs[i].arcTaps[k]),
                         late |-> FALSE] : k \in 1..Len(arcs[i].arcTaps)}
                  ELSE {[kind |-> "arc", note |-> i, k |-> k, at |-> arcs[i].judgeTimings.value[k],
                         late |-> TRUE] : k \in 1..Len(arcs[i].judgeTimings.value)} :
                     i \in 1..Len(arcs)}
Elapsed(time) ==
    {x \in Instants : Lt(x.at, I(time)) \/ (x.late /\ Eq(x.at, I(time)))}

\* score is floor(10,000,000 * combo / total) + combo and is at most
\* 10,000,000 + total, with combo <= total
ScoreOf(score, combo, total) ==
    /\ Eq(score, Add(Floor(Div(I(10000000 * combo), I(total))), I(combo)))
    /\ combo <= total
    /\ Le(score, I(10000000 + total))

\* C18 as stated: countScore returns floor(10,000,000 * combo / total) +
\* combo with combo the number of elapsed judge instants and total the
\* number of all of them.
C18_Statement ==
    call.op = "countScore" =>
        ScoreOf(call.ret.value[1], Cardinality(Elapsed(clock - audioOffset)), Cardinality(Instants))

\* C18: countScore returns floor(10,000,000 * combo / total) + combo with
\* combo the number of elapsed judge instants and total the number of all
\* of them, or 1 where the game has none; combo <= total and the score is
\* at most 10,000,000 + total.
C18_Score ==
    call.op = "countScore" =>
        /\ Eq(call.ret.value[2], I(Cardinality(Elapsed(clock - audioOffset))))
        /\ ScoreOf(call.ret.value[1], Cardinality(Elapsed(clock - audioOffset)),
                   IF Instants = {} THEN 1 ELSE Cardinality(Instants))

\* a score of a game with taps, a hold with judge timings and arcs with
\* judge timings, some of the instants elapsed and some not
C18_Witness ==
    /\ call.op = "countScore"
    /\ Loaded
    /\ taps # <<>>
    /\ \E i \in 1..Len(holds) : holds[i].judgeTimings.value # <<>>
    /\ \E i \in 1..Len(arcs) : arcs[i].judgeTimings.value # <<>>
    /\ Elapsed(clock - audioOffset) # {}
    /\ Elapsed(clock - audioOffset) # Instants
    /\ \E x \in Elapsed(clock - audioOffset) : x.late /\ x.k > 0

\* C19: getTimingEvents returns the TimingEvents that are in the event list
\* now, ascending by time.
C19_CacheFresh ==
    call.op = "getTimingEvents" =>
        /\ \A i \in 1..(Len(call.ret.value) - 1) :
              Le(call.ret.value[i].time, call.ret.value[i + 1].time)
        /\ \A e \in PushedEvents :
              Cardinality({i \in 1..Len(call.ret.value) : call.ret.value[i] = e})
                  = IF e.class = "TimingEvent"
                    THEN Cardinality({i \in 1..Len(events) : events[i] = e})
                    ELSE 0

\* C20: calculateJudgeTimings returns, for every hold and every arc with
\* endTime >= time.
C20_Terminates ==
    /\ \A i \in 1..Len(holds) : holds[i].judgeTimings.thrown # "diverges"
    /\ \A i \in 1..Len(arcs) : arcs[i].judgeTimings.thrown # "diverges"

\* Math.floor((endTime - time) / interval) of a note whose call read an
\* interval
TotalOf(note) == Floor(Div(I(note.endTime - note.time), note.judgeTimings.interval))

\* the notes whose call went into the loop and returned: the holds, the
\* arcs with their head and the arcs without
Looped(note) ==
    /\ ~IsNaN(note.judgeTimings.interval)
    /\ note.judgeTimings.thrown = "none"
    /\ Ge(TotalOf(note), I(2))
LoopedHolds == {h \in {holds[i] : i \in 1..Len(holds)} : Looped(h)}
LoopedArcs(head) == {a \in {arcs[i] : i \in 1..Len(arcs)} : Looped(a) /\ a.renderHead = head}

\* the instants floor(time + n * interval) for n from first to total - 1
\* that are before endTime, in the order of n
InstantsFrom(note, first) ==
    SelectSeq([k \in 1..(TotalOf(note)[1] - first) |->
                  Floor(Add(I(note.time), Mul(I(first + k - 1), note.judgeTimings.interval)))],
              LAMBDA t : Lt(t, I(note.endTime)))

\* C21 as stated: with total >= 2, an arc's judge timings are the instants
\* from n = 0 when it keeps its head and from n = 1 when its head is
\* suppressed, and a hold's are the instants from n = 0.
C21_Statement ==
    /\ \A h \in LoopedHolds : h.judgeTimings.value = InstantsFrom(h, 0)
    /\ \A a \in LoopedArcs(TRUE) : a.judgeTimings.value = InstantsFrom(a, 0)
    /\ \A a \in LoopedArcs(FALSE) : a.judgeTimings.value = InstantsFrom(a, 1)

\* C21: with total >= 2, an arc's judge timings are the instants
\* floor(time + n * interval) before endTime from n = 1 when it keeps its
\* head (renderHead true) and from n = 0 when its head is suppressed
\* (renderHead false), up to n = total - 1; a hold's are those from n = 1.
C21_StartOffset ==
    /\ \A h \in LoopedHolds : h.judgeTimings.value = InstantsFrom(h, 1)
    /\ \A a \in LoopedArcs(TRUE) : a.judgeTimings.value = InstantsFrom(a, 1)
    /\ \A a \in LoopedArcs(FALSE) : a.judgeTimings.value = InstantsFrom(a, 0)

\* a hold, an arc with its head and an arc without, each with total >= 2
\* and its judge timings calculated
C21_Witness ==
    /\ Loaded
    /\ LoopedHolds # {}
    /\ \E a \in LoopedArcs(TRUE) : Len(a.judgeTimings.value) >= 2
    /\ \E a \in LoopedArcs(FALSE) : Len(a.judgeTimings.value) >= 2

\* C22: a hold or a non-void arc of positive duration whose call read a
\* bpm > 0 has judge timings after the call, and they are the one midpoint
\* floor(time + (endTime - time) / 2) whenever total <= 1, with or without
\* the head.
C22_MidPoint ==
    \A note \in IntervalNotes :
        (/\ ~IsNaN(note.judgeTimings.interval)
         /\ note.judgeTimings.thrown = "none"
         /\ note.endTime > note.time)
            => /\ note.judgeTimings.value # <<>>
               /\ Le(TotalOf(note), One) => note.judgeTimings.value = <<MidPoint(note)>>

\* C23: the judge timings of every hold and arc are integers, strictly
\* increasing, each at or after time and before endTime.
C23_Increasing ==
    \A note \in IntervalNotes :
        /\ \A k \in 1..Len(note.judgeTimings.value) :
              /\ IsInteger(note.judgeTimings.value[k])
              /\ Ge(note.judgeTimings.value[k], I(note.time))
              /\ Lt(note.judgeTimings.value[k], I(note.endTime))
        /\ \A k \in 1..(Len(note.judgeTimings.value) - 1) :
              Lt(note.judgeTimings.value[k], note.judgeTimings.value[k + 1])

\* C24: a hold or an arc whose start time is in a tempo <= 0 has no judge
\* timings, and neither has a void arc or an arc with endTime = time.
C24_NoTimings ==
    /\ \A i \in 1..Len(holds) :
          Le(ActiveBpm(timings, holds[i].time), Zero) => holds[i].judgeTimings.value = <<>>
    /\ \A i \in 1..Len(arcs) :
          (\/ Le(ActiveBpm(timings, arcs[i].time), Zero)
           \/ arcs[i].isVoid
           \/ arcs[i].endTime = arcs[i].time) => arcs[i].judgeTimings.value = <<>>

\* a touches b: b starts where and when a ends
Touches(a, b) ==
    /\ Lt(Sub(a.end.x, b.start.x), <<1, 10>>)
    /\ Lt(Sub(b.start.x, a.end.x), <<1, 10>>)
    /\ Eq(a.end.y, b.start.y)
    /\ a.endTime - b.time <= 9
    /\ b.time - a.endTime <= 9

\* C25: after calculateArcRelationship, an arc's renderHead is false exactly
\* when another arc of its timing group and of its isVoid touches it,
\* whatever the colours.
C25_RenderHead ==
    Loaded =>
        \A b \in 1..Len(arcs) :
            arcs[b].renderHead =
                ~\E a \in 1..Len(arcs) :
                    /\ a # b
                    /\ arcs[a].timingGroup = arcs[b].timingGroup
                    /\ arcs[a].isVoid = arcs[b].isVoid
                    /\ Touches(arcs[a], arcs[b])

\* the list an arc's arcGroup refers to
GroupOf(a) == arcGroups[arcs[a].arcGroup]

\* C26: after calculateArcRelationship, an arc that no arc continues and
\* that continues no arc has the list of itself alone as arcGroup, and
\* every arc's arcGroup is in ascending order of time.
C26_SingletonSorted ==
    Loaded =>
        \A a \in 1..Len(arcs) :
            /\ Component({a}) = {a} => GroupOf(a) = <<a>>
            /\ \A k \in 1..(Len(GroupOf(a)) - 1) :
                  arcs[GroupOf(a)[k]].time <= arcs[GroupOf(a)[k + 1]].time

\* an arc alone in its list beside a list of three arcs or more that is
\* not in the order of the manager
C26_Witness ==
    /\ Loaded
    /\ \E a \in 1..Len(arcs) : Component({a}) = {a} /\ GroupOf(a) = <<a>>
    /\ \E a \in 1..Len(arcs) :
          /\ Len(GroupOf(a)) >= 3
          /\ \E k \in 1..(Len(GroupOf(a)) - 1) : GroupOf(a)[k] > GroupOf(a)[k + 1]

\* C28: after calculateArcRelationship, every arc is once in the list its
\* arcGroup refers to, and no list holds an arc twice, whatever the order of
\* the arcs in the manager.
C28_MemberOnce ==
    Loaded =>
        \A a \in 1..Len(arcs) :
            /\ Cardinality({k \in 1..Len(GroupOf(a)) : GroupOf(a)[k] = a}) = 1
            /\ \A j, k \in 1..Len(GroupOf(a)) : GroupOf(a)[j] = GroupOf(a)[k] => j = k

(***************************************************************************)
(* The claims about the search by position and about the judging.          *)
(***************************************************************************)
\* the interval that holds the clock: that of the last breakpoint at or
\* before it, the first interval for a clock before all of them
ClockInterval ==
    IF \E i \in 1..Len(timings) : timings[i].time + audioOffset <= clock
    THEN Max({i \in 1..Len(timings) : timings[i].time + audioOffset <= clock})
    ELSE 1

\* the times of interval i as walked from the clock: from the clock or the
\* breakpoint to the next breakpoint or the end of the song
IntervalFrom(i) == IF i = ClockInterval THEN clock ELSE timings[i].time + audioOffset
IntervalTo(i) == IF i = Len(timings) THEN songLength ELSE timings[i + 1].time + audioOffset

\* the position that interval i spans, and the position accumulated from
\* the clock to its start
SpanOf(i) ==
    Mul(Mul(I(IntervalTo(i) - IntervalFrom(i)), Div(timings[i].bpm, timings[1].bpm)),
        getDropRate)
RECURSIVE SpanStart(_)
SpanStart(i) == IF i <= ClockInterval THEN Zero ELSE Add(SpanStart(i - 1), SpanOf(i - 1))

\* the intervals from the clock on whose span brackets pos, with the ends
\* of the span or without
Bracketing(pos, strict) ==
    {i \in ClockInterval..Len(timings) :
        LET lo == SpanStart(i)
            hi == Add(SpanStart(i), SpanOf(i))
        IN  IF strict
            THEN (Lt(lo, pos) /\ Lt(pos, hi)) \/ (Lt(hi, pos) /\ Lt(pos, lo))
            ELSE (Le(lo, pos) /\ Le(pos, hi)) \/ (Le(hi, pos) /\ Le(pos, lo))}

\* C27: getTimingByPos(pos, depth) returns songLength when fewer than
\* depth + 1 intervals from that of the clock on bracket pos, and else a
\* time inside the (depth + 1)-th of them, whether the clock is before the
\* last breakpoint or in the last interval.  (Where the ends of a span
\* decide whether it brackets pos, only the first part is stated.)
C27_DepthBracket ==
    (call.op = "getTimingByPos" /\ BaseIsNonZero) =>
        /\ call.ret.thrown = "none"
        /\ Cardinality(Bracketing(call.a1, FALSE)) < call.a2[1] + 1
               => Eq(call.ret.value, I(songLength))
        /\ (/\ Bracketing(call.a1, TRUE) = Bracketing(call.a1, FALSE)
            /\ Cardinality(Bracketing(call.a1, TRUE)) >= call.a2[1] + 1)
               => /\ Le(I(IntervalFrom(Nth(Bracketing(call.a1, TRUE), call.a2[1] + 1))),
                        call.ret.value)
                  /\ Le(call.ret.value,
                        I(IntervalTo(Nth(Bracketing(call.a1, TRUE), call.a2[1] + 1))))

\* C29: whatever the clocks of the frames before, after judgeArcTaps has
\* run at clock T an arctap is judged if T is after its time plus the
\* offset, and not judged if T is before it.
C29_ArcTapJudged ==
    call.op = "judgeArcs" =>
        \A i \in 1..Len(arcs) :
            \A k \in 1..Len(arcs[i].arcTaps) :
                /\ clock > arcs[i].arcTaps[k] + audioOffset => arcs[i].tapsJudged[k]
                /\ clock < arcs[i].arcTaps[k] + audioOffset => ~arcs[i].tapsJudged[k]

\* C30: whatever the clocks of the frames before, after judgeHoldNotes has
\* run at clock T a hold is judging exactly when T is from its time to its
\* endTime (plus the offset), judged exactly when T is after its endTime
\* plus the offset, and never both.
C30_HoldJudged ==
    call.op = "judgeHoldNotes" =>
        \A i \in 1..Len(holds) :
            /\ holds[i].judging = (/\ holds[i].time + audioOffset <= clock
                                   /\ clock <= holds[i].endTime + audioOffset)
            /\ holds[i].judged = (clock > holds[i].endTime + audioOffset)
            /\ ~(holds[i].judging /\ holds[i].judged)

=============================================================================
